---- MODULE Spec2Model ----
(***************************************************************************)
(* Model of the execution core of godtradingbot:                           *)
(*   - StrategySwitcher (src/backend/trading/strategy_switcher.py)         *)
(*   - DEXAggregator    (src/backend/services/dex/aggregator.py)           *)
(*   - the /dex/swap route (src/backend/api/routers/dex.py)                *)
(* Times are whole seconds, confidences are hundredths, price impact and   *)
(* spread are basis points (1e-4), liquidity and volume are whole USD.     *)
(***************************************************************************)
EXTENDS Integers, Sequences, FiniteSets, TLC

VARIABLES
    \* ---- StrategySwitcher ----
    now,               \* datetime.utcnow(), seconds since construction
    current_mode,      \* self.current_mode
    mode_switch_time,  \* self.mode_switch_time
    run_pc,            \* position of run(): "sleep" | "evaluating"
    wake_at,           \* time at which the pending asyncio.sleep returns
    last_eval,         \* what the last finished iteration saw and did
    last_switch,       \* history: time of the last change of current_mode
    \* ---- DEXAggregator ----
    enabled,           \* supported_dexes[d]["enabled"]
    gq_pc,             \* position of get_best_quote
    gq_idx,            \* position of its loop over supported_dexes
    quotes,            \* its local list of collected quotes
    gq_answers,        \* history: what each provider answered in this call
    gq_started,        \* history: the venues whose call was started in it
    gq_result,         \* what the call returned or raised
    swap_result,       \* what the last DEXAggregator.execute_swap did
    swap_count,        \* self._metrics.swap_count
    \* ---- DEXAggregator.get_pool_info ----
    gp_pc,             \* position of get_pool_info
    gp_pair,           \* its argument token_pair
    gp_idx,            \* position of its loop over supported_dexes
    pool_data,         \* its local dict pool_data, in insertion order
    gp_answers,        \* history: what each provider answered in this call
    gp_started,        \* history: the venues whose call was started in it
    gp_result,         \* what the call returned or raised
    \* ---- POST /dex/swap ----
    router_pc,         \* "idle" | "done"
    router_req,        \* history: the request and what the venues answered
    router_result,     \* the last response of the handler
    \* ---- RiskManagerAgent ----
    ps_config,         \* self.position_sizing_config
    ps_result,         \* what the last calculate_position_size did
    risk_limits,       \* self.config["risk_limits"]
    vt_result,         \* what the last validate_trade did
    pr_result,         \* what the last assess_position_risk did
    pf_result,         \* what the last assess_portfolio_risk did
    \* ---- calculate_price_impact ----
    pi_result,         \* what the last calculate_price_impact did
    \* ---- StrategySwitcher.update_metrics ----
    mode_metrics,      \* self.mode_metrics
    pnl_sum,           \* history: per mode, the sum of the pnls attributed
    updates,           \* history: the number of update_metrics calls made
    \* ---- SolanaDEXManager ----
    sdm_result,        \* what the last SolanaDEXManager.execute_swap did
    sdm_count,         \* self._metrics.swap_count
    sdm_volume,        \* self._metrics.swap_volume
    sdm_tally,         \* history: attempts made, submitted and completed
    vl_result,         \* what the last _validate_liquidity call was given and did
    \* ---- OllamaModel.generate ----
    om_client,         \* the HTTP client in use: "httpx" | "AsyncMock"
    om_calls,          \* history: generate calls begun
    om_pc,             \* position of generate: "idle" | "request" | "sleep" | "done"
    om_attempt,        \* the loop variable attempt
    om_requests,       \* history: the outcome of each request made
    om_result,         \* what the call returned or raised
    venue_pick         \* the venue answers of one swap request and the venues picked

switcherVars == <<now, current_mode, mode_switch_time, run_pc, wake_at,
                  last_eval, last_switch>>

aggVars == <<enabled, gq_pc, gq_idx, quotes, gq_answers, gq_started,
             gq_result, swap_result, swap_count>>

poolVars == <<gp_pc, gp_pair, gp_idx, pool_data, gp_answers, gp_started,
              gp_result>>

routerVars == <<router_pc, router_req, router_result>>

sizerVars == <<ps_config, ps_result>>

riskVars == <<risk_limits, vt_result, pr_result, pf_result>>

impactVars == <<pi_result>>

\* The components that share no state with the controller, the aggregator
\* and the swap route.
metricsVars == <<mode_metrics, pnl_sum, updates>>

solanaVars == <<sdm_result, sdm_count, sdm_volume, sdm_tally, vl_result>>

ollamaVars == <<om_client, om_calls, om_pc, om_attempt, om_requests, om_result>>

pickVars == <<venue_pick>>
sideVars == <<metricsVars, solanaVars, ollamaVars, pickVars>>

extVars == <<sizerVars, riskVars, impactVars, sideVars>>

vars == <<switcherVars, aggVars, poolVars, routerVars, extVars>>

\* What the actions of one component leave alone.
notSwitcherVars == <<aggVars, poolVars, routerVars, extVars>>
notAggVars == <<switcherVars, poolVars, routerVars, extVars>>
coreVars == <<switcherVars, aggVars, poolVars, routerVars>>

(***************************************************************************)
(* Bounds                                                                  *)
(***************************************************************************)
MaxTime == 620
TickSteps == {5, 60}

(***************************************************************************)
(* StrategySwitcher                                                        *)
(***************************************************************************)
DEX_SWAP == "dex_swap"
PUMP_FUN == "pump_fun"
TradingMode == {DEX_SWAP, PUMP_FUN}

min_mode_duration == 300
PollInterval == 60
ErrorBackoff == 5
ConfidenceThreshold == 80

\* What the advisory may put under "recommended_mode": a mode name, another
\* string, or nothing ("none" stands for a missing key, i.e. None).
RecValues == {DEX_SWAP, PUMP_FUN, "hold", "none"}
\* Stands for a value under "confidence" of which Decimal(str(value)) raises
\* InvalidOperation (None, "high", ...).
NotANumber == 100000
\* Confidence in hundredths; a missing key reads as 0.  The advisory is a
\* language model's answer: nothing keeps the number within [0, 1].
ConfValues == {-10, 0, 79, 80, 81, 100, 150}

\* What one iteration saw and did.  queried: the opportunity scanners or the
\* advisory model were called; compared_made, compared: the test of line 96
\* was evaluated, and the confidence it was evaluated on.
NoEval == [kind |-> "none", rec |-> "none", conf |-> 0, mode_before |-> DEX_SWAP,
           switched |-> FALSE, queried |-> FALSE, compared_made |-> FALSE,
           compared |-> 0]

\* Variant: no dwell test.
DwellBlocksNever(t, switch_time) == FALSE

\* Variant: the dwell test made against the poll interval.
DwellBlocksPollInterval(t, switch_time) == (t - switch_time) < PollInterval

\* The dwell test of should_switch_mode: TRUE when it returns None at once.
DwellBlocks(t, switch_time) == (t - switch_time) < min_mode_duration

\* switch_confidence = Decimal(str(strategy_analysis.get("confidence", 0))):
\* the value of a number is kept as it is; there is no clamping and no range
\* test between this line and the comparison.
SwitchConfidence(conf) == conf

\* Variant: the confidence test made with >=.
ShouldSwitchModeAtLeast(mode, market_ok, advisory_ok, rec, conf) ==
    IF ~market_ok THEN "raise"
    ELSE IF ~advisory_ok THEN "raise"
    ELSE IF conf = NotANumber THEN "raise"
    ELSE IF SwitchConfidence(conf) >= ConfidenceThreshold /\ rec # mode
         THEN (IF rec \in TradingMode THEN rec ELSE "raise")
         ELSE "none"

\* Variant: recommended_mode returned as it is, without TradingMode(...).
ShouldSwitchModeUnvalidated(mode, market_ok, advisory_ok, rec, conf) ==
    IF ~market_ok THEN "raise"
    ELSE IF ~advisory_ok THEN "raise"
    ELSE IF conf = NotANumber THEN "raise"
    ELSE IF SwitchConfidence(conf) > ConfidenceThreshold /\ rec # mode
         THEN rec
         ELSE "none"

\* should_switch_mode after the dwell test, given what the collaborators
\* answered: "raise" | "none" | a member of TradingMode.
ShouldSwitchMode(mode, market_ok, advisory_ok, rec, conf) ==
    IF ~market_ok THEN "raise"
    ELSE IF ~advisory_ok THEN "raise"
    ELSE IF conf = NotANumber THEN "raise"
    ELSE IF SwitchConfidence(conf) > ConfidenceThreshold /\ rec # mode
         THEN (IF rec \in TradingMode THEN rec ELSE "raise")
         ELSE "none"

\* Variant: the error path sleeps the poll interval too.
SleepAfterAlwaysPoll(new_mode) == PollInterval

\* run(): the sleep that ends an iteration, asyncio.sleep(60) after the try
\* body and asyncio.sleep(5) in the except clause.
SleepAfter(new_mode) ==
    IF new_mode = "raise" THEN ErrorBackoff ELSE PollInterval

\* Variant: mode_switch_time is not written on a switch.
SwitchTimeKept(switch, t, old) == old

\* run(): self.mode_switch_time after the iteration, written together with
\* self.current_mode inside the if.
SwitchTime(switch, t, old) == IF switch THEN t ELSE old

SwitcherInit ==
    /\ now = 0
    /\ current_mode = DEX_SWAP
    /\ mode_switch_time = 0
    /\ run_pc = "sleep"
    /\ wake_at = 0
    /\ last_eval = NoEval
    /\ last_switch = 0

\* Time passes.
Tick ==
    /\ \E d \in TickSteps :
          /\ now + d <= MaxTime
          /\ now' = now + d
    /\ UNCHANGED <<current_mode, mode_switch_time, run_pc, wake_at,
                   last_eval, last_switch, notSwitcherVars>>

\* run(): the sleep returns and should_switch_mode makes its dwell test.
RunCheck ==
    /\ run_pc = "sleep"
    /\ now >= wake_at
    /\ IF DwellBlocks(now, mode_switch_time)
          THEN /\ run_pc' = "sleep"
               /\ wake_at' = now + PollInterval
               /\ last_eval' = [NoEval EXCEPT !.kind = "dwell",
                                              !.mode_before = current_mode,
                                              !.queried = FALSE]
          ELSE /\ run_pc' = "evaluating"
               /\ UNCHANGED <<wake_at, last_eval>>
    /\ UNCHANGED <<now, current_mode, mode_switch_time, last_switch,
                   notSwitcherVars>>

\* What the awaited collaborators of one evaluation can answer: the market
\* scan raises, the advisory raises, or the advisory returns a dict, whose
\* confidence is a number ("advised") or not ("advised_malformed").
EvalOutcomes ==
    {[kind |-> "market_error", rec |-> "none", conf |-> 0],
     [kind |-> "advisory_error", rec |-> "none", conf |-> 0]}
    \cup {[kind |-> "advised", rec |-> r, conf |-> c] :
             r \in RecValues, c \in ConfValues}
    \cup {[kind |-> "advised_malformed", rec |-> r, conf |-> NotANumber] :
             r \in RecValues}

\* run(): the awaited collaborators answer, should_switch_mode returns and
\* run() applies the result, then goes to sleep.
RunEvaluate ==
    /\ run_pc = "evaluating"
    /\ \E out \in EvalOutcomes :
          LET new_mode == ShouldSwitchMode(current_mode,
                                           out.kind # "market_error",
                                           out.kind # "advisory_error",
                                           out.rec, out.conf)
              \* if new_mode and new_mode != self.current_mode
              switch == /\ new_mode \notin {"raise", "none"}
                        /\ new_mode # current_mode
              compared_made == out.kind = "advised"
          IN  /\ current_mode' = IF switch THEN new_mode ELSE current_mode
              /\ mode_switch_time' = SwitchTime(switch, now, mode_switch_time)
              /\ last_switch' = IF switch THEN now ELSE last_switch
              /\ wake_at' = now + SleepAfter(new_mode)
              /\ last_eval' = [kind |-> out.kind, rec |-> out.rec,
                               conf |-> out.conf,
                               mode_before |-> current_mode,
                               switched |-> switch,
                               queried |-> TRUE,
                               compared_made |-> compared_made,
                               compared |-> IF compared_made
                                               THEN SwitchConfidence(out.conf)
                                               ELSE 0]
    /\ run_pc' = "sleep"
    /\ UNCHANGED <<now, notSwitcherVars>>

(***************************************************************************)
(* DEXAggregator                                                           *)
(***************************************************************************)
\* supported_dexes, in the insertion order of the dict literal.
DexOrder == <<"jupiter", "raydium", "orca">>
Dexes == {DexOrder[i] : i \in 1..Len(DexOrder)}

\* Price impacts a venue may quote, in basis points.
PriceImpacts == {100, 200, 300}
MaxSwaps == 2

NoQuote == [dex |-> "none", price_impact |-> 0, swap_fields |-> FALSE]

\* What one provider's get_quote call can do.
QuoteAnswers ==
    {[kind |-> "raise", pi |-> 0], [kind |-> "none", pi |-> 0]}
    \cup {[kind |-> "quote", pi |-> p] : p \in PriceImpacts}

NotAsked == [kind |-> "not_asked", pi |-> 0]

\* _get_dex_quote: the provider's quote tagged with the venue, or None.  The
\* dicts built by get_quote carry neither "original_response" nor
\* "user_pubkey".
GetDexQuote(dex_name, answer) ==
    IF dex_name \in Dexes /\ answer.kind = "quote"
       THEN [dex |-> dex_name, price_impact |-> answer.pi, swap_fields |-> FALSE]
       ELSE NoQuote

\* Variant: the loop also ends as soon as one venue has delivered.
LoopDoneOnFirstResult(collected, i) ==
    i > Len(DexOrder) \/ collected # <<>>

\* for dex_name, dex_config in self.supported_dexes.items(): the loop ends
\* when the dict is exhausted, whatever has been collected by then.
LoopDone(collected, i) == i > Len(DexOrder)

\* Variant: no try/except around _get_dex_quote.
QuoteStepPropagating(qs, dex_name, answer) ==
    IF answer.kind = "raise"
       THEN [quotes |-> qs, raised |-> TRUE]
       ELSE LET quote == GetDexQuote(dex_name, answer)
            IN  IF quote # NoQuote
                   THEN [quotes |-> Append(qs, quote), raised |-> FALSE]
                   ELSE [quotes |-> qs, raised |-> FALSE]

\* Body of the loop of get_best_quote for one enabled venue: the try/except
\* around _get_dex_quote.  raised = TRUE would mean the exception leaves
\* get_best_quote.
QuoteStep(qs, dex_name, answer) ==
    IF answer.kind = "raise"
       THEN [quotes |-> qs, raised |-> FALSE]
       ELSE LET quote == GetDexQuote(dex_name, answer)
            IN  IF quote # NoQuote
                   THEN [quotes |-> Append(qs, quote), raised |-> FALSE]
                   ELSE [quotes |-> qs, raised |-> FALSE]

\* min(quotes, key=lambda x: x["price_impact"]): the first element with the
\* least key.  best is replaced only by a strictly smaller key.
RECURSIVE MinFrom(_, _, _)
MinFrom(qs, i, best) ==
    IF i > Len(qs) THEN best
    ELSE IF qs[i].price_impact < best.price_impact
         THEN MinFrom(qs, i + 1, qs[i])
         ELSE MinFrom(qs, i + 1, best)

\* Variant: the first collected quote is returned.
FirstQuote(qs) == qs[1]

\* Variant: a later quote replaces the best one on an equal key.
RECURSIVE MinFromLast(_, _, _)
MinFromLast(qs, i, best) ==
    IF i > Len(qs) THEN best
    ELSE IF qs[i].price_impact <= best.price_impact
         THEN MinFromLast(qs, i + 1, qs[i])
         ELSE MinFromLast(qs, i + 1, best)

LastMinByPriceImpact(qs) == MinFromLast(qs, 2, qs[1])

MinByPriceImpact(qs) == MinFrom(qs, 2, qs[1])

\* Variant: an empty list yields a default quote instead of the error.
BestQuoteResultOrDefault(qs) ==
    IF qs = <<>>
       THEN [ok |-> TRUE, status |-> 200, detail |-> "",
             quote |-> [dex |-> "jupiter", price_impact |-> 0,
                        swap_fields |-> FALSE]]
       ELSE [ok |-> TRUE, status |-> 200, detail |-> "",
             quote |-> MinByPriceImpact(qs)]

\* The end of get_best_quote.
BestQuoteResult(qs) ==
    IF qs = <<>>
       THEN [ok |-> FALSE, status |-> 400, detail |-> "No valid quotes found",
             quote |-> NoQuote]
       ELSE [ok |-> TRUE, status |-> 200, detail |-> "",
             quote |-> MinByPriceImpact(qs)]

NoResult == [ok |-> FALSE, status |-> 0, detail |-> "", quote |-> NoQuote]
\* An exception of a venue that left get_best_quote.
ProviderError == [ok |-> FALSE, status |-> 500, detail |-> "provider error",
                  quote |-> NoQuote]
NoSwap == [status |-> "none", detail |-> "", dex_used |-> "none", exec_calls |-> 0,
           quote |-> NoQuote, venue_ok |-> FALSE]

\* __init__ enables the three venues; "enabled" is a plain dict entry that
\* get_best_quote and get_pool_info read on every call, so every setting of
\* the three flags is covered.
AggInit ==
    /\ enabled \in [Dexes -> BOOLEAN]
    /\ gq_pc = "idle"
    /\ gq_idx = 1
    /\ quotes = <<>>
    /\ gq_answers = [d \in Dexes |-> NotAsked]
    /\ gq_started = {}
    /\ gq_result = NoResult
    /\ swap_result = NoSwap
    /\ swap_count = 0

\* A caller enters get_best_quote.
GetBestQuoteCall ==
    /\ gq_pc \in {"idle", "returned", "failed"}
    /\ gq_pc' = "loop"
    /\ gq_idx' = 1
    /\ quotes' = <<>>
    /\ gq_answers' = [d \in Dexes |-> NotAsked]
    /\ gq_started' = {}
    /\ gq_result' = NoResult
    /\ UNCHANGED <<enabled, swap_result, swap_count, notAggVars>>

\* The loop reaches the next venue: a disabled one is skipped, an enabled one
\* is asked and awaited.
QuoteNext ==
    /\ gq_pc = "loop"
    /\ ~LoopDone(quotes, gq_idx)
    /\ IF enabled[DexOrder[gq_idx]]
          THEN /\ gq_pc' = "awaiting"
               /\ gq_started' = gq_started \cup {DexOrder[gq_idx]}
               /\ UNCHANGED gq_idx
          ELSE /\ gq_idx' = gq_idx + 1
               /\ UNCHANGED <<gq_pc, gq_started>>
    /\ UNCHANGED <<enabled, quotes, gq_answers, gq_result, swap_result,
                   swap_count, notAggVars>>

\* The awaited venue answers.
QuoteAnswer ==
    /\ gq_pc = "awaiting"
    /\ \E answer \in QuoteAnswers :
          LET dex_name == DexOrder[gq_idx]
              step == QuoteStep(quotes, dex_name, answer)
          IN  /\ gq_answers' = [gq_answers EXCEPT ![dex_name] = answer]
              /\ quotes' = step.quotes
              /\ IF step.raised
                    THEN /\ gq_pc' = "failed"
                         /\ gq_result' = ProviderError
                         /\ UNCHANGED gq_idx
                    ELSE /\ gq_pc' = "loop"
                         /\ gq_idx' = gq_idx + 1
                         /\ UNCHANGED gq_result
    /\ UNCHANGED <<enabled, gq_started, swap_result, swap_count, notAggVars>>

\* The loop is over: raise NoQuote or return the minimum.
GetBestQuoteReturn ==
    /\ gq_pc = "loop"
    /\ LoopDone(quotes, gq_idx)
    /\ gq_result' = BestQuoteResult(quotes)
    /\ gq_pc' = IF gq_result'.ok THEN "returned" ELSE "failed"
    /\ UNCHANGED <<enabled, gq_idx, quotes, gq_answers, gq_started,
                   swap_result, swap_count, notAggVars>>

\* Quotes a direct caller of DEXAggregator.execute_swap may pass besides the
\* one get_best_quote returned: any venue name, with or without the fields
\* JupiterAPI.get_swap_instruction reads.
CallerQuotes ==
    [dex : Dexes \cup {"serum"}, price_impact : {100}, swap_fields : BOOLEAN]

\* JupiterAPI.get_swap_instruction: TRUE when it returns a swap dict, FALSE
\* when it returns None (a missing key or a transport error, both caught).
GetSwapInstruction(quote, venue_ok) == quote.swap_fields /\ venue_ok

\* Variant: a refused submission is tried a second time.
ExecuteDexSwapRetrying(dex_name, quote, venue_ok) ==
    IF dex_name = "jupiter"
       THEN IF GetSwapInstruction(quote, venue_ok)
               THEN [ok |-> TRUE, status |-> 200, detail |-> "",
                     exec_calls |-> 1]
               ELSE [ok |-> FALSE, status |-> 500,
                     detail |-> "Failed to get swap instruction",
                     exec_calls |-> 2]
       ELSE [ok |-> FALSE, status |-> 400,
             detail |-> "Swap execution not implemented",
             exec_calls |-> 0]

\* _execute_dex_swap: exec_calls counts the submissions made to the venue.
ExecuteDexSwap(dex_name, quote, venue_ok) ==
    IF dex_name = "jupiter"
       THEN IF GetSwapInstruction(quote, venue_ok)
               THEN [ok |-> TRUE, status |-> 200, detail |-> "",
                     exec_calls |-> 1]
               ELSE [ok |-> FALSE, status |-> 500,
                     detail |-> "Failed to get swap instruction",
                     exec_calls |-> 1]
       ELSE [ok |-> FALSE, status |-> 400,
             detail |-> "Swap execution not implemented",
             exec_calls |-> 0]

\* DEXAggregator.execute_swap: every exception of the body, HTTPException
\* included, is re-raised as HTTPException(500, "Swap execution failed: ...").
ExecuteSwap(quote, venue_ok) ==
    IF quote.dex \notin Dexes
       THEN [status |-> "failed", detail |-> "Swap execution failed",
             dex_used |-> "none", exec_calls |-> 0,
             quote |-> quote, venue_ok |-> venue_ok]
       ELSE LET result == ExecuteDexSwap(quote.dex, quote, venue_ok)
            IN  IF result.ok
                   THEN [status |-> "completed", detail |-> "",
                         dex_used |-> quote.dex,
                         exec_calls |-> result.exec_calls,
                         quote |-> quote, venue_ok |-> venue_ok]
                   ELSE [status |-> "failed",
                         detail |-> "Swap execution failed",
                         dex_used |-> "none",
                         exec_calls |-> result.exec_calls,
                         quote |-> quote, venue_ok |-> venue_ok]

\* A caller runs DEXAggregator.execute_swap on a quote.
AggExecuteSwap ==
    /\ swap_count < MaxSwaps
    /\ \E quote \in CallerQuotes \cup
                    (IF gq_pc = "returned" THEN {gq_result.quote} ELSE {}),
          venue_ok \in BOOLEAN :
          /\ swap_result' = ExecuteSwap(quote, venue_ok)
          /\ swap_count' = IF swap_result'.status = "completed"
                              THEN swap_count + 1 ELSE swap_count
    /\ UNCHANGED <<enabled, gq_pc, gq_idx, quotes, gq_answers, gq_started,
                   gq_result, notAggVars>>

(***************************************************************************)
(* DEXAggregator.get_pool_info and get_best_quote as functions of what the *)
(* venues answer, for the callers that run them to completion.             *)
(***************************************************************************)
\* Token strings are sequences of characters.
InputTokens == {<<"S">>, <<"A", "/", "B">>}
OutputTokens == {<<"U">>}

\* f"{input_token}/{output_token}"
PairOf(input_token, output_token) == input_token \o <<"/">> \o output_token

RECURSIVE CountSlash(_)
CountSlash(str) ==
    IF str = <<>> THEN 0
    ELSE (IF Head(str) = "/" THEN 1 ELSE 0) + CountSlash(Tail(str))

\* len(token_pair.split("/"))
SplitLen(token_pair) == CountSlash(token_pair) + 1

\* Pool figures a venue may report: USD, USD, basis points.
Liquidities == {99999, 100000}
Volumes == {49999, 50000}
Spreads == {100, 110}
\* Prices JupiterAPI.get_price may report, in cents.
JupiterPrices == {0, 9, 10}

NoPool == [venue |-> "none", liquidity_usd |-> 0, volume_24h |-> 0, spread |-> 0]

PoolAnswers ==
    {[kind |-> "raise", price |-> 0, liquidity_usd |-> 0, volume_24h |-> 0,
      spread |-> 0],
     [kind |-> "none", price |-> 0, liquidity_usd |-> 0, volume_24h |-> 0,
      spread |-> 0]}
    \cup {[kind |-> "pool", price |-> 0, liquidity_usd |-> l, volume_24h |-> v,
           spread |-> sp] : l \in Liquidities, v \in Volumes, sp \in Spreads}

JupiterPoolAnswers ==
    {[kind |-> "raise", price |-> 0, liquidity_usd |-> 0, volume_24h |-> 0,
      spread |-> 0],
     [kind |-> "none", price |-> 0, liquidity_usd |-> 0, volume_24h |-> 0,
      spread |-> 0]}
    \cup {[kind |-> "price", price |-> pr, liquidity_usd |-> 0, volume_24h |-> 0,
           spread |-> 0] : pr \in JupiterPrices}

PoolAnswerMaps ==
    {f \in [Dexes -> PoolAnswers \cup JupiterPoolAnswers] :
        \A d \in Dexes : IF d = "jupiter" THEN f[d] \in JupiterPoolAnswers
                                          ELSE f[d] \in PoolAnswers}

\* _get_dex_pool_info: the venue's snapshot, or None.  Jupiter's is derived
\* from its price (a zero price is falsy); the venue field is not part of the
\* dict, it only records where the snapshot came from.
GetDexPoolInfo(dex_name, answer) ==
    IF dex_name = "jupiter"
       THEN IF answer.kind = "price" /\ answer.price # 0
               THEN [venue |-> dex_name,
                     liquidity_usd |-> (answer.price * 1000000) \div 100,
                     volume_24h |-> (answer.price * 500000) \div 100,
                     spread |-> 10]
               ELSE NoPool
       ELSE IF answer.kind = "pool"
               THEN [venue |-> dex_name, liquidity_usd |-> answer.liquidity_usd,
                     volume_24h |-> answer.volume_24h, spread |-> answer.spread]
               ELSE NoPool

\* Variant: no try/except around _get_dex_pool_info.
PoolStepPropagating(pd, dex_name, answer) ==
    IF answer.kind = "raise"
       THEN [pool_data |-> pd, raised |-> TRUE]
       ELSE LET data == GetDexPoolInfo(dex_name, answer)
            IN  IF data # NoPool
                   THEN [pool_data |-> Append(pd, data), raised |-> FALSE]
                   ELSE [pool_data |-> pd, raised |-> FALSE]

\* Body of the loop of get_pool_info for one enabled venue: the try/except
\* around _get_dex_pool_info.  pool_data is kept in insertion order.
PoolStep(pd, dex_name, answer) ==
    IF answer.kind = "raise"
       THEN [pool_data |-> pd, raised |-> FALSE]
       ELSE LET data == GetDexPoolInfo(dex_name, answer)
            IN  IF data # NoPool
                   THEN [pool_data |-> Append(pd, data), raised |-> FALSE]
                   ELSE [pool_data |-> pd, raised |-> FALSE]

\* The loop of get_pool_info run to its end.
RECURSIVE CollectPools(_, _, _, _)
CollectPools(en, answers, i, pd) ==
    IF LoopDone(pd, i) THEN [pool_data |-> pd, raised |-> FALSE]
    ELSE LET dex_name == DexOrder[i]
         IN  IF ~en[dex_name]
                THEN CollectPools(en, answers, i + 1, pd)
                ELSE LET step == PoolStep(pd, dex_name, answers[dex_name])
                     IN  IF step.raised THEN step
                         ELSE CollectPools(en, answers, i + 1, step.pool_data)

\* max(pool_data.values(), key=lambda x: x["liquidity_usd"]): the first
\* element with the greatest key.
RECURSIVE MaxFrom(_, _, _)
MaxFrom(ps, i, best) ==
    IF i > Len(ps) THEN best
    ELSE IF ps[i].liquidity_usd > best.liquidity_usd
         THEN MaxFrom(ps, i + 1, ps[i])
         ELSE MaxFrom(ps, i + 1, best)

\* Variant: a later snapshot replaces the best one on an equal key.
RECURSIVE MaxFromLast(_, _, _)
MaxFromLast(ps, i, best) ==
    IF i > Len(ps) THEN best
    ELSE IF ps[i].liquidity_usd >= best.liquidity_usd
         THEN MaxFromLast(ps, i + 1, ps[i])
         ELSE MaxFromLast(ps, i + 1, best)

LastMaxByLiquidity(ps) == MaxFromLast(ps, 2, ps[1])

MaxByLiquidity(ps) == MaxFrom(ps, 2, ps[1])

NoPoolResult == [ok |-> FALSE, status |-> 0, detail |-> "",
                 best_liquidity |-> NoPool, dex_data |-> <<>>]
\* An exception of a venue that left get_pool_info.
PoolProviderError == [ok |-> FALSE, status |-> 500, detail |-> "provider error",
                      best_liquidity |-> NoPool, dex_data |-> <<>>]

\* The test get_pool_info makes on its argument before the loop.
InvalidPairResult == [ok |-> FALSE, status |-> 400,
                      detail |-> "Invalid token pair format",
                      best_liquidity |-> NoPool, dex_data |-> <<>>]

\* The end of get_pool_info.
PoolInfoResult(pd) ==
    IF pd = <<>>
       THEN [ok |-> FALSE, status |-> 404,
             detail |-> "No pool information found",
             best_liquidity |-> NoPool, dex_data |-> <<>>]
       ELSE [ok |-> TRUE, status |-> 200, detail |-> "",
             best_liquidity |-> MaxByLiquidity(pd), dex_data |-> pd]

GetPoolInfo(token_pair, en, answers) ==
    IF SplitLen(token_pair) # 2
       THEN InvalidPairResult
       ELSE LET c == CollectPools(en, answers, 1, <<>>)
            IN  IF c.raised THEN PoolProviderError
                ELSE PoolInfoResult(c.pool_data)

\* The loop of get_best_quote run to its end.
RECURSIVE CollectQuotes(_, _, _, _)
CollectQuotes(en, answers, i, qs) ==
    IF LoopDone(qs, i) THEN [quotes |-> qs, raised |-> FALSE]
    ELSE LET dex_name == DexOrder[i]
         IN  IF ~en[dex_name]
                THEN CollectQuotes(en, answers, i + 1, qs)
                ELSE LET step == QuoteStep(qs, dex_name, answers[dex_name])
                     IN  IF step.raised THEN step
                         ELSE CollectQuotes(en, answers, i + 1, step.quotes)

GetBestQuote(en, answers) ==
    LET c == CollectQuotes(en, answers, 1, <<>>)
    IN  IF c.raised THEN ProviderError ELSE BestQuoteResult(c.quotes)

(***************************************************************************)
(* DEXAggregator.get_pool_info, one await at a time                        *)
(***************************************************************************)
\* Arguments a caller may pass as token_pair.
TokenPairs == {<<"S", "/", "U">>, <<"I">>, <<"S", "/">>, <<"/", "U">>,
               <<"S", "/", "U", "/", "X">>}

NoPair == <<>>

\* What the pool call of one venue can do.
PoolAnswersOf(dex_name) ==
    IF dex_name = "jupiter" THEN JupiterPoolAnswers ELSE PoolAnswers

PoolInit ==
    /\ gp_pc = "idle"
    /\ gp_pair = NoPair
    /\ gp_idx = 1
    /\ pool_data = <<>>
    /\ gp_answers = [d \in Dexes |-> NotAsked]
    /\ gp_started = {}
    /\ gp_result = NoPoolResult

\* A caller enters get_pool_info: the argument is split and tested.
GetPoolInfoCall ==
    /\ gp_pc \in {"idle", "returned", "failed"}
    /\ \E token_pair \in TokenPairs :
          /\ gp_pair' = token_pair
          /\ IF SplitLen(token_pair) # 2
                THEN /\ gp_pc' = "failed"
                     /\ gp_result' = InvalidPairResult
                ELSE /\ gp_pc' = "loop"
                     /\ gp_result' = NoPoolResult
    /\ gp_idx' = 1
    /\ pool_data' = <<>>
    /\ gp_answers' = [d \in Dexes |-> NotAsked]
    /\ gp_started' = {}
    /\ UNCHANGED <<switcherVars, extVars, aggVars, routerVars>>

\* The loop reaches the next venue: a disabled one is skipped, an enabled one
\* is asked and awaited.
PoolNext ==
    /\ gp_pc = "loop"
    /\ ~LoopDone(pool_data, gp_idx)
    /\ IF enabled[DexOrder[gp_idx]]
          THEN /\ gp_pc' = "awaiting"
               /\ gp_started' = gp_started \cup {DexOrder[gp_idx]}
               /\ UNCHANGED gp_idx
          ELSE /\ gp_idx' = gp_idx + 1
               /\ UNCHANGED <<gp_pc, gp_started>>
    /\ UNCHANGED <<gp_pair, pool_data, gp_answers, gp_result,
                   switcherVars, extVars, aggVars, routerVars>>

\* The awaited venue answers.
PoolAnswer ==
    /\ gp_pc = "awaiting"
    /\ \E answer \in PoolAnswersOf(DexOrder[gp_idx]) :
          LET dex_name == DexOrder[gp_idx]
              step == PoolStep(pool_data, dex_name, answer)
          IN  /\ gp_answers' = [gp_answers EXCEPT ![dex_name] = answer]
              /\ pool_data' = step.pool_data
              /\ IF step.raised
                    THEN /\ gp_pc' = "failed"
                         /\ gp_result' = PoolProviderError
                         /\ UNCHANGED gp_idx
                    ELSE /\ gp_pc' = "loop"
                         /\ gp_idx' = gp_idx + 1
                         /\ UNCHANGED gp_result
    /\ UNCHANGED <<gp_pair, gp_started, switcherVars, extVars, aggVars, routerVars>>

\* The loop is over: raise NoLiquidityData or return the per-venue data.
GetPoolInfoReturn ==
    /\ gp_pc = "loop"
    /\ LoopDone(pool_data, gp_idx)
    /\ gp_result' = PoolInfoResult(pool_data)
    /\ gp_pc' = IF gp_result'.ok THEN "returned" ELSE "failed"
    /\ UNCHANGED <<gp_pair, gp_idx, pool_data, gp_answers, gp_started,
                   switcherVars, extVars, aggVars, routerVars>>

(***************************************************************************)
(* One caller of the aggregator, who awaits one aggregate call at a time   *)
(* (the route handlers of routers/dex.py and the unit tests await their    *)
(* calls in sequence).                                                     *)
(***************************************************************************)
CallerGetBestQuote ==
    /\ gp_pc = "idle"
    /\ GetBestQuoteCall

CallerGetPoolInfo ==
    /\ gq_pc = "idle"
    /\ GetPoolInfoCall

\* The caller has taken the result or the exception of the finished call; its
\* locals are gone.
CallerTakesResult ==
    /\ \/ gq_pc \in {"returned", "failed"}
       \/ gp_pc \in {"returned", "failed"}
    /\ gq_pc' = "idle"
    /\ gq_idx' = 1
    /\ quotes' = <<>>
    /\ gq_answers' = [d \in Dexes |-> NotAsked]
    /\ gq_started' = {}
    /\ gq_result' = NoResult
    /\ gp_pc' = "idle"
    /\ gp_pair' = NoPair
    /\ gp_idx' = 1
    /\ pool_data' = <<>>
    /\ gp_answers' = [d \in Dexes |-> NotAsked]
    /\ gp_started' = {}
    /\ gp_result' = NoPoolResult
    /\ UNCHANGED <<enabled, swap_result, swap_count, switcherVars, extVars, routerVars>>

(***************************************************************************)
(* POST /dex/swap (routers/dex.py, execute_swap)                           *)
(***************************************************************************)
MIN_LIQUIDITY_USD == 100000
MAX_PRICE_IMPACT == 200
MIN_VOLUME_24H == 50000
MAX_SPREAD == 100

\* Whether the name Decimal is bound in the module routers/dex.py: its
\* import block binds asyncio, json, logging, datetime, timedelta, Dict, List,
\* APIRouter, BackgroundTasks, Depends, HTTPException, AsyncIOMotorDatabase,
\* Redis, DEXAggregator, get_current_user, get_database and get_redis only.
DecimalIsBound == FALSE

\* Variant: the checks on best_pool left out.
GateChecksSkipped(best_pool) == "ok"

\* The three checks on best_pool, in source order.  The first of them
\* evaluates Decimal(...), a NameError when the name is unbound.
GateChecks(best_pool) ==
    IF ~DecimalIsBound THEN "name_error"
    ELSE IF best_pool.liquidity_usd < MIN_LIQUIDITY_USD THEN "liquidity"
    ELSE IF best_pool.volume_24h < MIN_VOLUME_24H THEN "volume"
    ELSE IF best_pool.spread > MAX_SPREAD THEN "spread"
    ELSE "ok"

\* The check on the quote.
ImpactCheck(quote) ==
    IF quote.price_impact > MAX_PRICE_IMPACT THEN "price_impact" ELSE "ok"

GateStatus(gate) == IF gate = "name_error" THEN 500 ELSE 400

GateDetail(gate) ==
    IF gate = "liquidity" THEN "Insufficient liquidity"
    ELSE IF gate = "volume" THEN "Insufficient volume"
    ELSE IF gate = "spread" THEN "Spread too high"
    ELSE IF gate = "price_impact" THEN "Price impact too high"
    ELSE "name 'Decimal' is not defined"

NoAnswers == [d \in Dexes |-> NotAsked]
NoRequest == [input_token |-> <<>>, output_token |-> <<>>,
              pool_answers |-> [d \in Dexes |-> NotAsked],
              quote_answers |-> NoAnswers]

\* The JSON body of an error answer: HTTPException(status_code=...,
\* detail=f"...") is rendered as an object with the one key "detail", the
\* message string.
ErrorBody(detail) == [detail |-> detail]

\* The response: status, detail and body of the HTTP answer, the threshold a
\* rejection cites, and what the handler had obtained and done by then.
Response(status, detail, gate, best_pool, quote, swap) ==
    [status |-> status, detail |-> detail, body |-> ErrorBody(detail),
     gate |-> gate, best_pool |-> best_pool, quote |-> quote,
     swap_invoked |-> swap # NoSwap, swap |-> swap]

NoResponse == Response(0, "", "none", NoPool, NoQuote, NoSwap)

RouterInit ==
    /\ router_pc = "idle"
    /\ router_req = NoRequest
    /\ router_result = NoResponse

\* After the quote is obtained: check 4, then DEXAggregator.execute_swap.
AfterQuote(best_pool, quote, venue_ok) ==
    IF ImpactCheck(quote) # "ok"
       THEN Response(400, GateDetail(ImpactCheck(quote)), ImpactCheck(quote),
                     best_pool, quote, NoSwap)
       ELSE LET swap == ExecuteSwap(quote, venue_ok)
            IN  IF swap.status = "completed"
                   THEN Response(200, "completed", "none", best_pool, quote, swap)
                   ELSE Response(500, swap.detail, "none", best_pool, quote, swap)

\* One request to POST /dex/swap, from entry to response.
RouterExecuteSwap ==
    /\ router_pc = "idle"
    /\ swap_count < MaxSwaps
    /\ router_pc' = "done"
    /\ \E input_token \in InputTokens, output_token \in OutputTokens,
          pool_answers \in PoolAnswerMaps :
          LET pool_info == GetPoolInfo(PairOf(input_token, output_token),
                                       enabled, pool_answers)
              best_pool == pool_info.best_liquidity
              req == [input_token |-> input_token,
                      output_token |-> output_token,
                      pool_answers |-> pool_answers,
                      quote_answers |-> NoAnswers]
          IN  IF ~pool_info.ok
                 THEN /\ router_result' = Response(pool_info.status,
                                pool_info.detail, "none", NoPool, NoQuote, NoSwap)
                      /\ router_req' = req
                      /\ UNCHANGED <<swap_result, swap_count>>
              ELSE IF GateChecks(best_pool) # "ok"
                 THEN /\ router_result' = Response(
                                GateStatus(GateChecks(best_pool)),
                                GateDetail(GateChecks(best_pool)),
                                GateChecks(best_pool), best_pool, NoQuote, NoSwap)
                      /\ router_req' = req
                      /\ UNCHANGED <<swap_result, swap_count>>
              ELSE \E quote_answers \in [Dexes -> QuoteAnswers],
                      venue_ok \in BOOLEAN :
                      LET best == GetBestQuote(enabled, quote_answers)
                      IN  /\ router_req' = [req EXCEPT
                                              !.quote_answers = quote_answers]
                          /\ router_result' =
                                IF ~best.ok
                                   THEN Response(best.status, best.detail, "none",
                                                 best_pool, NoQuote, NoSwap)
                                   ELSE AfterQuote(best_pool, best.quote, venue_ok)
                          /\ swap_result' = IF router_result'.swap_invoked
                                               THEN router_result'.swap
                                               ELSE swap_result
                          /\ swap_count' = IF router_result'.status = 200
                                              THEN swap_count + 1
                                              ELSE swap_count
    /\ UNCHANGED <<switcherVars, extVars, poolVars, enabled, gq_pc, gq_idx, quotes,
                   gq_answers, gq_started, gq_result>>

\* The response is delivered; the route is ready for the next request.
RouterRespond ==
    /\ router_pc = "done"
    /\ router_pc' = "idle"
    /\ router_req' = NoRequest
    /\ UNCHANGED <<router_result, switcherVars, extVars, aggVars, poolVars>>

(***************************************************************************)
(* Numbers.  The risk manager works on Python floats and the price-impact  *)
(* function on Decimals; both are modelled by exact fractions n/d, d > 0,  *)
(* in lowest terms, so that equal numbers are equal records.               *)
(***************************************************************************)
Abs(x) == IF x < 0 THEN -x ELSE x

RECURSIVE GCD(_, _)
GCD(a, b) == IF b = 0 THEN a ELSE GCD(b, a % b)

\* The fraction n/d, d # 0.
Rat(n, d) ==
    LET g == GCD(Abs(n), Abs(d))
        sgn == IF d < 0 THEN -1 ELSE 1
    IN  [n |-> sgn * (n \div g), d |-> Abs(d) \div g]

R(n) == Rat(n, 1)
RatAdd(a, b) == Rat(a.n * b.d + b.n * a.d, a.d * b.d)
RatSub(a, b) == Rat(a.n * b.d - b.n * a.d, a.d * b.d)
RatMul(a, b) == Rat(a.n * b.n, a.d * b.d)
\* a / b, b # 0.
RatDiv(a, b) == Rat(a.n * b.d, a.d * b.n)
RatLt(a, b) == a.n * b.d < b.n * a.d
RatLeq(a, b) == a.n * b.d <= b.n * a.d
RatAbs(a) == [n |-> Abs(a.n), d |-> a.d]
\* min(a, b) and max(a, b) of Python: the first argument on a tie.
RatMin(a, b) == IF RatLt(b, a) THEN b ELSE a
RatMax(a, b) == IF RatLt(a, b) THEN b ELSE a

(***************************************************************************)
(* RiskManagerAgent.calculate_position_size                                *)
(***************************************************************************)
\* config.get("max_position_size", 100000), config.get("max_leverage", 5)
max_position_size == R(100000)
max_leverage == R(5)

\* Settings of the three lists of the staged entry: the defaults, and one
\* list shorter than the two others.
StageLists ==
    {[entry_stages |-> <<Rat(1, 2), Rat(3, 10), Rat(1, 5)>>,
      profit_targets |-> <<R(2), R(3), R(5)>>,
      size_per_stage |-> <<Rat(1, 5), Rat(1, 4), Rat(1, 5)>>],
     [entry_stages |-> <<Rat(1, 2), Rat(1, 2)>>,
      profit_targets |-> <<R(2), R(3), R(5)>>,
      size_per_stage |-> <<Rat(1, 5), Rat(1, 4), Rat(1, 5)>>],
     [entry_stages |-> <<Rat(1, 2), Rat(3, 10), Rat(1, 5)>>,
      profit_targets |-> <<R(2)>>,
      size_per_stage |-> <<Rat(1, 5), Rat(1, 4), Rat(1, 5)>>],
     [entry_stages |-> <<Rat(1, 2), Rat(3, 10), Rat(1, 5)>>,
      profit_targets |-> <<R(2), R(3), R(5)>>,
      size_per_stage |-> <<>>]}

\* Values of position_sizing_config: base_size below and above
\* max_position_size * max_position_percent, every setting of the flags.
SizingConfigs ==
    {[base_size |-> b, size_multiplier |-> R(1),
      max_position_percent |-> Rat(1, 5),
      risk_based_sizing |-> rb, volatility_adjustment |-> va,
      staged_entry |-> se, entry_stages |-> l.entry_stages,
      profit_targets |-> l.profit_targets,
      size_per_stage |-> l.size_per_stage] :
        b \in {R(1000), R(30000)}, rb \in BOOLEAN, va \in BOOLEAN,
        se \in BOOLEAN, l \in StageLists}

\* The default of config.get("position_sizing", {...}).
DefaultSizingConfig ==
    [base_size |-> R(1000), size_multiplier |-> R(1),
     max_position_percent |-> Rat(1, 5),
     risk_based_sizing |-> TRUE, volatility_adjustment |-> TRUE,
     staged_entry |-> FALSE,
     entry_stages |-> <<Rat(1, 2), Rat(3, 10), Rat(1, 5)>>,
     profit_targets |-> <<R(2), R(3), R(5)>>,
     size_per_stage |-> <<Rat(1, 5), Rat(1, 4), Rat(1, 5)>>]

\* Variant: a risk factor of 0 is let through.
SizingErrorZeroRisk(symbol, price, risk_factor, leverage) ==
    IF symbol = "" THEN "Symbol must not be empty"
    ELSE IF RatLeq(price, R(0)) THEN "Price must be positive"
    ELSE IF RatLt(risk_factor, R(0)) \/ RatLt(R(1), risk_factor)
         THEN "Risk factor must be between 0 and 1"
    ELSE IF RatLt(leverage, R(1)) \/ RatLt(max_leverage, leverage)
         THEN "Leverage must be between 1 and max_leverage"
    ELSE "none"

\* The four tests at the head of calculate_position_size: the message of
\* the ValueError raised, or "none".
SizingError(symbol, price, risk_factor, leverage) ==
    IF symbol = "" THEN "Symbol must not be empty"
    ELSE IF RatLeq(price, R(0)) THEN "Price must be positive"
    ELSE IF RatLeq(risk_factor, R(0)) \/ RatLt(R(1), risk_factor)
         THEN "Risk factor must be between 0 and 1"
    ELSE IF RatLt(leverage, R(1)) \/ RatLt(max_leverage, leverage)
         THEN "Leverage must be between 1 and max_leverage"
    ELSE "none"

\* max_size = self.max_position_size * config["max_position_percent"]
MaxSize(config) == RatMul(max_position_size, config.max_position_percent)

\* Variant: the leverage multiplies the size.
PositionSizeLeveraged(config, risk_factor, leverage) ==
    LET base_size == RatMul(config.base_size, config.size_multiplier)
        s1 == RatMin(base_size, MaxSize(config))
        s2 == IF config.risk_based_sizing THEN RatMul(s1, risk_factor) ELSE s1
        s3 == RatMul(s2, leverage)
    IN  IF config.volatility_adjustment THEN RatMul(s3, Rat(4, 5)) ELSE s3

\* position_size as the body computes it, step by step.
PositionSize(config, risk_factor, leverage) ==
    LET base_size == RatMul(config.base_size, config.size_multiplier)
        s1 == RatMin(base_size, MaxSize(config))
        s2 == IF config.risk_based_sizing THEN RatMul(s1, risk_factor) ELSE s1
        s3 == RatDiv(s2, leverage)
    IN  IF config.volatility_adjustment THEN RatMul(s3, Rat(4, 5)) ELSE s3

\* zip(a, b, c) stops at the end of the shortest list.
ZipLen(a, b, c) ==
    IF Len(a) <= Len(b)
       THEN (IF Len(a) <= Len(c) THEN Len(a) ELSE Len(c))
       ELSE (IF Len(b) <= Len(c) THEN Len(b) ELSE Len(c))

\* Variant: the size of a stage taken from size_per_stage.
StageSizeBySizePct(position_size, stage_pct, size_pct) ==
    RatMul(position_size, size_pct)

\* "size": position_size * stage_pct
StageSize(position_size, stage_pct, size_pct) ==
    RatMul(position_size, stage_pct)

\* The list built by the loop over the zipped lists.
Stages(config, position_size, price) ==
    [i \in 1..ZipLen(config.entry_stages, config.profit_targets,
                     config.size_per_stage) |->
        [size |-> StageSize(position_size, config.entry_stages[i],
                            config.size_per_stage[i]),
         price |-> price,
         target_price |-> RatMul(price, config.profit_targets[i]),
         size_percentage |-> config.size_per_stage[i]]]

NoSizing == [called |-> FALSE, raised |-> FALSE, error |-> "none",
             computed |-> FALSE, symbol |-> "", price |-> R(0),
             risk_factor |-> R(0), leverage |-> R(0),
             total_size |-> R(0), max_size |-> R(0),
             stages_none |-> TRUE, stages |-> <<>>]

\* calculate_position_size: computed tells that the body after the four
\* tests ran; stages_none that "stages" is None.
CalculatePositionSize(config, symbol, price, risk_factor, leverage) ==
    LET error == SizingError(symbol, price, risk_factor, leverage)
        call == [NoSizing EXCEPT !.called = TRUE, !.symbol = symbol,
                                 !.price = price,
                                 !.risk_factor = risk_factor,
                                 !.leverage = leverage]
    IN  IF error # "none"
           THEN [call EXCEPT !.raised = TRUE, !.error = error]
           ELSE LET position_size == PositionSize(config, risk_factor, leverage)
                IN  [call EXCEPT
                       !.computed = TRUE,
                       !.total_size = position_size,
                       !.max_size = MaxSize(config),
                       !.stages_none = ~config.staged_entry,
                       !.stages = IF config.staged_entry
                                     THEN Stages(config, position_size, price)
                                     ELSE <<>>]

SizerInit ==
    /\ ps_config = DefaultSizingConfig
    /\ ps_result = NoSizing

\* The calls of calculate_position_size that are to be made: the arguments,
\* no result yet.
SizingCalls ==
    {[NoSizing EXCEPT !.symbol = symbol, !.price = price,
                      !.risk_factor = risk_factor, !.leverage = leverage] :
        symbol \in {"", "BTC"}, price \in {R(-1), R(0), R(100)},
        risk_factor \in {R(0), Rat(1, 2), R(1), Rat(3, 2)},
        leverage \in {R(0), Rat(1, 2), R(1), Rat(5, 2), R(5), R(6)}}

\* The call of calculate_position_size is made.
SizerCalculate ==
    /\ ~ps_result.called
    /\ ps_result' = CalculatePositionSize(ps_config, ps_result.symbol,
                                          ps_result.price,
                                          ps_result.risk_factor,
                                          ps_result.leverage)
    /\ UNCHANGED <<ps_config, riskVars, impactVars, coreVars, sideVars>>

(***************************************************************************)
(* RiskManagerAgent.validate_trade                                         *)
(***************************************************************************)
\* config.get("min_margin_ratio", 0.1)
min_margin_ratio == Rat(1, 10)

TradeSymbols == {"BTC", "ETH"}
\* self.config["risk_limits"]: per symbol, whether it has an entry, and the
\* "max_size" of the entry.
NoLimit == [present |-> FALSE, max_size |-> R(0)]
LimitSettings ==
    [TradeSymbols -> {NoLimit, [present |-> TRUE, max_size |-> R(10)]}]

NoValidation == [called |-> FALSE, is_valid |-> FALSE, reason |-> "none",
                 symbol |-> "", size |-> R(0), price |-> R(0),
                 free_collateral |-> R(0)]

\* Variant: the per-symbol test made on the notional value.
TradeRejectionByNotional(limits, symbol, size, price, free_collateral) ==
    LET notional_value == RatMul(size, price)
        margin_required == RatDiv(notional_value, max_leverage)
    IN  IF limits[symbol].present
             /\ RatLt(limits[symbol].max_size, notional_value)
           THEN "Size exceeds limit"
        ELSE IF RatLt(max_position_size, notional_value)
           THEN "Notional value exceeds limit"
        ELSE IF RatLt(free_collateral, margin_required)
           THEN "Insufficient free collateral"
        ELSE "none"

\* The three tests of validate_trade, in source order: the reason of the
\* rejection, or "none".
TradeRejection(limits, symbol, size, price, free_collateral) ==
    LET notional_value == RatMul(size, price)
        margin_required == RatDiv(notional_value, max_leverage)
    IN  IF limits[symbol].present /\ RatLt(limits[symbol].max_size, size)
           THEN "Size exceeds limit"
        ELSE IF RatLt(max_position_size, notional_value)
           THEN "Notional value exceeds limit"
        ELSE IF RatLt(free_collateral, margin_required)
           THEN "Insufficient free collateral"
        ELSE "none"

ValidateTrade(limits, symbol, size, price, free_collateral) ==
    LET reason == TradeRejection(limits, symbol, size, price, free_collateral)
    IN  [called |-> TRUE, is_valid |-> reason = "none",
         reason |-> IF reason = "none"
                       THEN "Trade meets risk management criteria"
                       ELSE reason,
         symbol |-> symbol, size |-> size, price |-> price,
         free_collateral |-> free_collateral]

\* The calls of validate_trade that are to be made.
ValidationCalls ==
    {[NoValidation EXCEPT !.symbol = symbol, !.size = size, !.price = price,
                          !.free_collateral = free_collateral] :
        symbol \in TradeSymbols,
        size \in {R(-5), R(5), R(10), R(20), R(2000)},
        price \in {Rat(1, 10), R(1), R(100)},
        free_collateral \in {R(0), R(100), R(40000)}}

\* The call of validate_trade is made.
RiskValidateTrade ==
    /\ ~vt_result.called
    /\ vt_result' = ValidateTrade(risk_limits, vt_result.symbol,
                                  vt_result.size, vt_result.price,
                                  vt_result.free_collateral)
    /\ UNCHANGED <<risk_limits, pr_result, pf_result, sizerVars, impactVars,
                   coreVars, sideVars>>

(***************************************************************************)
(* RiskManagerAgent.assess_position_risk and assess_portfolio_risk         *)
(***************************************************************************)
\* Variant: the weighted sum returned without the clamp.
CombinedRiskUnclamped(volatility_risk, leverage_risk, size_risk) ==
    RatMul(RatAdd(RatAdd(RatMul(Rat(4, 5), volatility_risk),
                         RatMul(Rat(3, 20), leverage_risk)),
                  RatMul(Rat(1, 20), size_risk)),
           R(2))

\* min(1.0, max(0.0, (0.8*v + 0.15*l + 0.05*s) * 2.0))
CombinedRisk(volatility_risk, leverage_risk, size_risk) ==
    RatMin(R(1),
           RatMax(R(0),
                  RatMul(RatAdd(RatAdd(RatMul(Rat(4, 5), volatility_risk),
                                       RatMul(Rat(3, 20), leverage_risk)),
                                RatMul(Rat(1, 20), size_risk)),
                         R(2))))

NoPositionRisk == [called |-> FALSE, raised |-> FALSE, risk_score |-> R(0),
                   notional_value |-> R(0), margin_required |-> R(0),
                   margin_ratio |-> R(0), liquidation_price |-> R(0),
                   volatility_risk |-> R(0),
                   position |-> [size |-> R(0), entry_price |-> R(0),
                                 current_price |-> R(0), leverage |-> R(0)]]

\* assess_position_risk.  The divisions by position.leverage and by
\* position.entry_price raise ZeroDivisionError on a zero.
AssessPositionRisk(position) ==
    LET call == [NoPositionRisk EXCEPT !.called = TRUE, !.position = position]
    IN  IF position.leverage = R(0) \/ position.entry_price = R(0)
           THEN [call EXCEPT !.raised = TRUE]
           ELSE
    LET notional_value == RatMul(position.size, position.current_price)
        margin_required == RatDiv(notional_value, position.leverage)
        liquidation_price ==
            IF RatLt(R(0), position.entry_price)
               THEN RatMul(position.entry_price, RatSub(R(1), min_margin_ratio))
               ELSE R(0)
        margin_ratio ==
            IF RatLt(R(0), position.current_price)
               THEN RatDiv(RatSub(position.current_price, liquidation_price),
                           position.current_price)
               ELSE R(0)
        price_change ==
            RatDiv(RatAbs(RatSub(position.current_price, position.entry_price)),
                   position.entry_price)
        volatility_risk == RatMin(R(1), RatMul(price_change, R(15)))
        size_risk ==
            RatMin(R(1), RatMul(RatDiv(notional_value, max_position_size), R(2)))
        leverage_risk ==
            RatMin(R(1), RatMul(RatDiv(position.leverage, max_leverage), R(3)))
    IN  [call EXCEPT
           !.risk_score = CombinedRisk(volatility_risk, leverage_risk, size_risk),
           !.notional_value = notional_value,
           !.margin_required = margin_required,
           !.margin_ratio = margin_ratio,
           !.liquidation_price = liquidation_price,
           !.volatility_risk = volatility_risk]

\* The calls of assess_position_risk that are to be made: positions with
\* their size (negative for a short), entry price, current price, leverage.
PositionRiskCalls ==
    {[NoPositionRisk EXCEPT !.position = position] :
        position \in [size : {R(-2), R(0), R(1), R(10)},
                      entry_price : {R(-100), R(0), R(100)},
                      current_price : {R(0), R(90), R(100), R(200)},
                      leverage : {R(0), R(1), R(5), R(10)}]}

\* The call of assess_position_risk is made.
RiskAssessPosition ==
    /\ ~pr_result.called
    /\ pr_result' = AssessPositionRisk(pr_result.position)
    /\ UNCHANGED <<risk_limits, vt_result, pf_result, sizerVars, impactVars,
                   coreVars, sideVars>>

\* Positions held by the portfolios: a long one, a large leveraged one, a
\* short one, and one whose entry price is 0.
HeldPositions ==
    {[size |-> R(1), entry_price |-> R(100), current_price |-> R(100),
      leverage |-> R(1)],
     [size |-> R(10), entry_price |-> R(100), current_price |-> R(200),
      leverage |-> R(5)],
     [size |-> R(-2), entry_price |-> R(100), current_price |-> R(90),
      leverage |-> R(1)],
     [size |-> R(1), entry_price |-> R(0), current_price |-> R(100),
      leverage |-> R(1)]}

MaxPositions == 2

NoPortfolioRisk ==
    [called |-> FALSE, raised |-> FALSE, total_risk_score |-> R(0),
     position_risks |-> <<>>, margin_warning |-> FALSE,
     concentration_warning |-> FALSE, diversification_score |-> R(0),
     actions_none |-> FALSE, recommended_actions |-> <<>>,
     positions |-> <<>>, total_value |-> R(0), free_collateral |-> R(0)]

\* _get_risk_recommendations: the list, or None when it is empty.
RiskRecommendations(margin_warning, concentration_warning) ==
    (IF margin_warning THEN <<"Reduce leverage">> ELSE <<>>)
    \o (IF concentration_warning THEN <<"Diversify positions">> ELSE <<>>)

RECURSIVE SumRisk(_, _)
\* The two sums of the loop over positions: risk_score * notional_value and
\* notional_value.
SumRisk(risks, i) ==
    IF i > Len(risks) THEN [weighted |-> R(0), notional |-> R(0)]
    ELSE LET rest == SumRisk(risks, i + 1)
         IN  [weighted |-> RatAdd(RatMul(risks[i].risk_score,
                                         risks[i].notional_value),
                                  rest.weighted),
              notional |-> RatAdd(risks[i].notional_value, rest.notional)]

RECURSIVE MaxNotional(_, _)
\* max((p.size * p.current_price for p in positions), default=0)
MaxNotional(risks, i) ==
    IF i > Len(risks) THEN R(0)
    ELSE IF i = Len(risks) THEN risks[i].notional_value
    ELSE RatMax(risks[i].notional_value, MaxNotional(risks, i + 1))

\* The body of assess_portfolio_risk after the test on portfolio.positions.
PortfolioRiskBody(positions, total_value, free_collateral) ==
    LET call == [NoPortfolioRisk EXCEPT !.called = TRUE,
                                        !.positions = positions,
                                        !.total_value = total_value,
                                        !.free_collateral = free_collateral]
        risks == [i \in 1..Len(positions) |-> AssessPositionRisk(positions[i])]
    IN  IF \E i \in 1..Len(positions) : risks[i].raised
           THEN [call EXCEPT !.raised = TRUE]
           ELSE
    LET sums == SumRisk(risks, 1)
        margin_ratio == IF RatLt(R(0), total_value)
                           THEN RatDiv(free_collateral, total_value)
                           ELSE R(0)
        margin_warning == RatLt(margin_ratio, min_margin_ratio)
        concentration_warning ==
            IF RatLt(R(0), sums.notional)
               THEN RatLt(Rat(1, 2),
                          RatDiv(MaxNotional(risks, 1), sums.notional))
               ELSE FALSE
        actions == RiskRecommendations(margin_warning, concentration_warning)
    IN  [call EXCEPT
           !.total_risk_score = IF RatLt(R(0), sums.notional)
                                   THEN RatDiv(sums.weighted, sums.notional)
                                   ELSE R(0),
           !.position_risks = risks,
           !.margin_warning = margin_warning,
           !.concentration_warning = concentration_warning,
           !.diversification_score = RatMin(R(1), Rat(Len(positions), 10)),
           !.actions_none = actions = <<>>,
           !.recommended_actions = actions]

\* Variant: no early return for a portfolio without positions.
AssessPortfolioRiskNoEarlyReturn(positions, total_value, free_collateral) ==
    PortfolioRiskBody(positions, total_value, free_collateral)

\* assess_portfolio_risk: the all-neutral answer for no positions, the body
\* otherwise.
AssessPortfolioRisk(positions, total_value, free_collateral) ==
    IF positions = <<>>
       THEN [NoPortfolioRisk EXCEPT !.called = TRUE,
                                    !.total_value = total_value,
                                    !.free_collateral = free_collateral]
       ELSE PortfolioRiskBody(positions, total_value, free_collateral)

\* The calls of assess_portfolio_risk that are to be made.
PortfolioRiskCalls ==
    {[NoPortfolioRisk EXCEPT !.positions = positions,
                             !.total_value = total_value,
                             !.free_collateral = free_collateral] :
        positions \in UNION {[1..k -> HeldPositions] : k \in 0..MaxPositions},
        total_value \in {R(0), R(1000), R(1000000)},
        free_collateral \in {R(0), R(50), R(500)}}

\* The call of assess_portfolio_risk is made.
RiskAssessPortfolio ==
    /\ ~pf_result.called
    /\ pf_result' = AssessPortfolioRisk(pf_result.positions,
                                        pf_result.total_value,
                                        pf_result.free_collateral)
    /\ UNCHANGED <<risk_limits, vt_result, pr_result, sizerVars, impactVars,
                   coreVars, sideVars>>

RiskInit ==
    /\ risk_limits = [sym \in TradeSymbols |-> NoLimit]
    /\ vt_result = NoValidation
    /\ pr_result = NoPositionRisk
    /\ pf_result = NoPortfolioRisk

(***************************************************************************)
(* calculate_price_impact (routers/dex.py)                                 *)
(***************************************************************************)
\* One entry of liquidity_data: absent, present with a value that is not a
\* number, or present with a number.
Missing == [kind |-> "missing", v |-> R(0)]
NonNumeric == [kind |-> "text", v |-> R(0)]
Num(x) == [kind |-> "num", v |-> x]

\* standard_trade_size = Decimal("10000")
standard_trade_size == R(10000)

\* The arithmetic of the constant-product formula, for positive numbers.
ImpactValue(price, base_liquidity, quote_liquidity) ==
    LET base_amount == RatDiv(standard_trade_size, price)
        k == RatMul(base_liquidity, quote_liquidity)
        new_base_liquidity == RatAdd(base_liquidity, base_amount)
        new_quote_liquidity == RatDiv(k, new_base_liquidity)
        price_after == RatDiv(new_quote_liquidity, new_base_liquidity)
    IN  RatDiv(RatAbs(RatSub(price_after, price)), price)

\* The try body: the exception it ends with ("none" when it returns) and
\* the value it returns.  The isinstance test names Decimal, which the
\* module does not bind, as soon as its first operand has been read.
ImpactBody(data) ==
    LET fields == <<data.price, data.base_liquidity, data.quote_liquidity>>
    IN  IF \E i \in 1..3 : fields[i].kind = "missing"
           THEN [exc |-> "ValueError", value |-> R(0)]
        ELSE IF ~DecimalIsBound
           THEN [exc |-> "NameError", value |-> R(0)]
        ELSE IF \E i \in 1..3 : fields[i].kind # "num"
           THEN [exc |-> "ValueError", value |-> R(0)]
        ELSE IF \E i \in 1..3 : RatLeq(fields[i].v, R(0))
           THEN [exc |-> "ValueError", value |-> R(0)]
        ELSE [exc |-> "none",
              value |-> ImpactValue(data.price.v, data.base_liquidity.v,
                                    data.quote_liquidity.v)]

NoImpact == [called |-> FALSE, raised |-> FALSE, infinite |-> FALSE,
             value |-> R(0),
             data |-> [price |-> Missing, base_liquidity |-> Missing,
                       quote_liquidity |-> Missing]]

\* Variant: only ValueError is caught.
ImpactHandlerValueErrorOnly(data, body) ==
    IF body.exc = "ValueError"
       THEN [NoImpact EXCEPT !.called = TRUE, !.data = data, !.infinite = TRUE]
    ELSE IF body.exc # "none"
       THEN [NoImpact EXCEPT !.called = TRUE, !.data = data, !.raised = TRUE]
    ELSE [NoImpact EXCEPT !.called = TRUE, !.data = data,
                          !.value = body.value]

\* The two except clauses: both return float("inf").
ImpactHandler(data, body) ==
    IF body.exc # "none"
       THEN [NoImpact EXCEPT !.called = TRUE, !.data = data, !.infinite = TRUE]
       ELSE [NoImpact EXCEPT !.called = TRUE, !.data = data,
                             !.value = body.value]

CalculatePriceImpact(data) == ImpactHandler(data, ImpactBody(data))

ImpactInit == pi_result = NoImpact

\* The calls of calculate_price_impact that are to be made.
ImpactCalls ==
    {[NoImpact EXCEPT !.data = [price |-> price,
                                base_liquidity |-> base_liquidity,
                                quote_liquidity |-> quote_liquidity]] :
        price \in {Missing, NonNumeric, Num(R(-1)), Num(R(0)), Num(R(2)),
                   Num(R(100))},
        base_liquidity \in {Missing, NonNumeric, Num(R(-1)), Num(R(0)),
                            Num(R(1000)), Num(R(100000))},
        quote_liquidity \in {Missing, NonNumeric, Num(R(-1)), Num(R(0)),
                             Num(R(100000)), Num(R(10000000))}}

\* The call of calculate_price_impact is made.
ImpactCalculate ==
    /\ ~pi_result.called
    /\ pi_result' = CalculatePriceImpact(pi_result.data)
    /\ UNCHANGED <<sizerVars, riskVars, coreVars, sideVars>>

(***************************************************************************)
(* StrategySwitcher.update_metrics                                         *)
(***************************************************************************)
MaxUpdates == 3

\* StrategyMetrics(): six Decimal("0").
StrategyMetrics ==
    [total_pnl |-> R(0), win_rate |-> R(0), avg_return |-> R(0),
     volatility |-> R(0), sharpe_ratio |-> R(0), max_drawdown |-> R(0)]

\* Variant: the pnl itself is averaged into the win rate.
WinRateByPnl(old, pnl) == RatDiv(RatAdd(RatMul(old, R(9)), pnl), R(10))

\* if pnl > 0: (win_rate * 9 + 1) / 10  else: win_rate * 9 / 10
WinRate(old, pnl) ==
    IF RatLt(R(0), pnl)
       THEN RatDiv(RatAdd(RatMul(old, R(9)), R(1)), R(10))
       ELSE RatDiv(RatMul(old, R(9)), R(10))

\* Variant: total_pnl is overwritten with the pnl of the last trade.
UpdatedMetricsLastPnl(metrics, pnl) ==
    [metrics EXCEPT
       !.total_pnl = pnl,
       !.win_rate = WinRate(metrics.win_rate, pnl),
       !.avg_return = RatDiv(RatAdd(RatMul(metrics.avg_return, R(9)), pnl),
                             R(10))]

\* The assignments of update_metrics to one StrategyMetrics, for a trade
\* result that carries "pnl" only (a missing "pnl" reads as 0): volatility
\* and sharpe_ratio are read back from the metrics themselves and
\* max_drawdown is max(max_drawdown, 0).
UpdatedMetrics(metrics, pnl) ==
    [metrics EXCEPT
       !.total_pnl = RatAdd(metrics.total_pnl, pnl),
       !.win_rate = WinRate(metrics.win_rate, pnl),
       !.avg_return = RatDiv(RatAdd(RatMul(metrics.avg_return, R(9)), pnl),
                             R(10)),
       !.max_drawdown = RatMax(metrics.max_drawdown, R(0))]

\* Variant: the update is applied to the metrics of every mode.
UpdateEveryMode(all_metrics, mode, pnl) ==
    [m \in TradingMode |-> UpdatedMetrics(all_metrics[m], pnl)]

\* metrics = self.mode_metrics[mode]: the object of that mode is updated
\* in place.
UpdateModeMetrics(all_metrics, mode, pnl) ==
    [all_metrics EXCEPT ![mode] = UpdatedMetrics(all_metrics[mode], pnl)]

MetricsInit ==
    /\ mode_metrics = [m \in TradingMode |-> StrategyMetrics]
    /\ pnl_sum = [m \in TradingMode |-> R(0)]
    /\ updates = 0

\* A caller settles a trade: update_metrics(mode, {"pnl": pnl}).  The
\* coroutine holds no await, so it runs between two steps of run().
UpdateMetrics ==
    /\ updates < MaxUpdates
    /\ \E mode \in TradingMode, pnl \in {R(-1), R(0), R(2)} :
          /\ mode_metrics' = UpdateModeMetrics(mode_metrics, mode, pnl)
          /\ pnl_sum' = [pnl_sum EXCEPT ![mode] = RatAdd(pnl_sum[mode], pnl)]
    /\ updates' = updates + 1
    /\ UNCHANGED <<coreVars, sizerVars, riskVars, impactVars, solanaVars,
                   ollamaVars,
                   pickVars>>

(***************************************************************************)
(* SolanaDEXManager (src/backend/trading/solana_dex_manager.py)            *)
(***************************************************************************)
MaxOrders == 2

\* self._min_liquidity, self._min_volume, self._max_spread (basis points).
SolanaThresholds ==
    [min_liquidity |-> 100000, min_volume |-> 50000, max_spread |-> 100]

\* Orders: whether "token_in" and "token_out" are present, and "amount_in"
\* absent, not a number, or a number.
Orders ==
    [token_in : BOOLEAN, token_out : BOOLEAN,
     amount_in : {Missing, NonNumeric, Num(R(-1)), Num(R(0)), Num(R(1))}]

\* _validate_order: all(field in order for field in required_fields)
ValidateOrder(order) ==
    order.token_in /\ order.token_out /\ order.amount_in.kind # "missing"

\* _get_pool_data: the placeholder returns the same snapshot for every pair.
GetPoolData ==
    [venue |-> "jupiter", liquidity_usd |-> 1000000, volume_24h |-> 500000,
     spread |-> 10]

\* _validate_liquidity
ValidateLiquidity(pool) ==
    /\ pool.liquidity_usd >= SolanaThresholds.min_liquidity
    /\ pool.volume_24h >= SolanaThresholds.min_volume
    /\ pool.spread <= SolanaThresholds.max_spread

\* SolanaDEXManager._execute_dex_swap: Decimal(str(order["amount_in"])) *
\* Decimal("0.99") raises for a value that is no number; otherwise the
\* placeholder reports the swap as made.
SolanaDexSwapOk(order) == order.amount_in.kind = "num"

\* swap_volume.inc(amount) of the counter of TradingMetrics: whether the
\* increment may be accepted, whether it may be refused.  A counter takes
\* every amount >= 0; what it does with a negative amount is not stated.
CounterOutcomes(amount) ==
    IF RatLt(amount, R(0)) THEN {"accepted", "refused"} ELSE {"accepted"}

\* The except clause of execute_swap: every exception of the body,
\* HTTPException(400, ...) included, leaves as HTTPException(500, ...).
SwapFailure(raised_status) == 500

NoSolanaSwap ==
    [called |-> FALSE, status |-> "none", code |-> 0, detail |-> "",
     pool_fetched |-> FALSE, submitted |-> FALSE, volume_added |-> FALSE,
     counted |-> FALSE,
     order |-> [token_in |-> FALSE, token_out |-> FALSE, amount_in |-> Missing]]

\* SolanaDEXManager.execute_swap, given what the volume counter does.
SolanaExecuteSwap(order, counter) ==
    LET call == [NoSolanaSwap EXCEPT !.called = TRUE, !.order = order]
        failed(raised_status, detail) ==
            [call EXCEPT !.status = "failed",
                         !.code = SwapFailure(raised_status),
                         !.detail = detail]
    IN  IF ~ValidateOrder(order)
           THEN failed(400, "Swap execution failed: Invalid order parameters")
        ELSE IF ~ValidateLiquidity(GetPoolData)
           THEN [failed(400, "Swap execution failed: Insufficient liquidity for swap")
                   EXCEPT !.pool_fetched = TRUE]
        ELSE IF ~SolanaDexSwapOk(order)
           THEN [failed(500, "Swap execution failed: InvalidOperation")
                   EXCEPT !.pool_fetched = TRUE]
        ELSE IF counter = "refused"
           THEN [failed(500, "Swap execution failed: ValueError")
                   EXCEPT !.pool_fetched = TRUE, !.submitted = TRUE]
        ELSE [call EXCEPT !.status = "completed", !.code = 200,
                          !.pool_fetched = TRUE, !.submitted = TRUE,
                          !.volume_added = TRUE, !.counted = TRUE]

NoLiquidityCheck ==
    [called |-> FALSE, accepted |-> FALSE, router_gate |-> "none",
     pool |-> NoPool]

SolanaInit ==
    /\ sdm_result = NoSolanaSwap
    /\ sdm_count = 0
    /\ sdm_volume = R(0)
    /\ sdm_tally = [attempts |-> 0, submitted |-> 0, completed |-> 0]
    /\ vl_result = NoLiquidityCheck

\* A caller runs SolanaDEXManager.execute_swap on an order.
SolanaExecuteSwapCall ==
    /\ sdm_tally.attempts < MaxOrders
    /\ \E order \in Orders :
          \E counter \in (IF order.amount_in.kind = "num"
                             THEN CounterOutcomes(order.amount_in.v)
                             ELSE {"accepted"}) :
             LET result == SolanaExecuteSwap(order, counter)
             IN  /\ sdm_result' = result
                 /\ sdm_volume' = IF result.volume_added
                                     THEN RatAdd(sdm_volume, order.amount_in.v)
                                     ELSE sdm_volume
                 /\ sdm_count' = IF result.counted THEN sdm_count + 1
                                                   ELSE sdm_count
                 /\ sdm_tally' =
                       [attempts |-> sdm_tally.attempts + 1,
                        submitted |-> sdm_tally.submitted
                                      + (IF result.submitted THEN 1 ELSE 0),
                        completed |-> sdm_tally.completed
                                      + (IF result.status = "completed"
                                            THEN 1 ELSE 0)]
    /\ UNCHANGED <<vl_result, coreVars, sizerVars, riskVars, impactVars,
                   metricsVars, ollamaVars,
                   pickVars>>

\* A caller runs _validate_liquidity on a pool snapshot; router_gate records
\* what the three checks of POST /dex/swap make of the same snapshot.
SolanaValidateLiquidity ==
    /\ \E liquidity_usd \in {10000, 99999, 100000, 1000000},
          volume_24h \in {1000, 49999, 50000, 500000},
          spread \in {10, 100, 101, 200} :
          LET pool == [venue |-> "jupiter", liquidity_usd |-> liquidity_usd,
                       volume_24h |-> volume_24h, spread |-> spread]
          IN  vl_result' = [called |-> TRUE,
                            accepted |-> ValidateLiquidity(pool),
                            router_gate |-> GateChecks(pool),
                            pool |-> pool]
    /\ UNCHANGED <<sdm_result, sdm_count, sdm_volume, sdm_tally, coreVars,
                   sizerVars, riskVars, impactVars, metricsVars, ollamaVars,
                   pickVars>>

(***************************************************************************)
(* OllamaModel.generate (src/shared/models/ollama.py)                      *)
(***************************************************************************)
MaxGenerations == 2

max_retries == 3

\* The HTTP client behind httpx.AsyncClient: the library itself, whose
\* Response.json() is an ordinary method returning the decoded value, or the
\* AsyncMock of the unit tests, whose json() returns an awaitable.
Clients == {"httpx", "AsyncMock"}

\* What one POST /generate can come to: a read timeout, another
\* httpx.HTTPError (connect failure, error status), a body that is no JSON,
\* JSON that is no object, an object without "response", a valid answer.
RequestOutcomes ==
    {"read_timeout", "http_error", "bad_json", "not_dict", "no_response", "ok"}

\* Which exception, if any, the try body raises for a request outcome.
\* "await response.json()" awaits the VALUE json() returned: with httpx that
\* is the decoded body, which is not awaitable, so the await raises TypeError
\* whatever the body was.
TryBody(client, outcome) ==
    CASE outcome = "read_timeout" -> "ReadTimeout"
      [] outcome = "http_error"   -> "HTTPError"
      [] outcome = "bad_json"     -> "JSONDecodeError"
      [] client = "httpx"         -> "TypeError"
      [] outcome = "not_dict"     -> "ModelError"
      [] outcome = "no_response"  -> "ModelError"
      [] OTHER                    -> "none"

NoGeneration == [kind |-> "none", detail |-> ""]

\* The three except clauses, in order; "retry" stands for falling through
\* to the next iteration of the loop.
ExceptClause(exception) ==
    CASE exception = "none" -> [kind |-> "returned", detail |-> "response"]
      [] exception = "ReadTimeout" -> [kind |-> "retry", detail |-> ""]
      [] exception \in {"HTTPError", "JSONDecodeError"} ->
            [kind |-> "ModelError", detail |-> exception]
      [] OTHER -> [kind |-> "ModelError", detail |-> "Unexpected error"]

\* The raise after the loop.
RetriesExhausted ==
    [kind |-> "ModelError", detail |-> "Model response timeout"]

OllamaInit ==
    /\ om_calls = 0
    /\ om_pc = "idle"
    /\ om_attempt = 0
    /\ om_requests = <<>>
    /\ om_result = NoGeneration

\* generate is called: the loop starts with attempt 0.
OllamaGenerateCall ==
    /\ om_pc = "idle"
    /\ om_calls < MaxGenerations
    /\ om_calls' = om_calls + 1
    /\ om_pc' = "request"
    /\ om_attempt' = 0
    /\ om_requests' = <<>>
    /\ om_result' = NoGeneration
    /\ UNCHANGED <<om_client, coreVars, sizerVars, riskVars, impactVars,
                   metricsVars, solanaVars,
                   pickVars>>

\* One iteration of the loop up to its await, return or raise.
OllamaRequest ==
    /\ om_pc = "request"
    /\ \E outcome \in RequestOutcomes :
          LET handled == ExceptClause(TryBody(om_client, outcome))
          IN  /\ om_requests' = Append(om_requests, outcome)
              /\ IF handled.kind # "retry"
                    THEN /\ om_pc' = "done"
                         /\ om_result' = handled
                         /\ om_attempt' = om_attempt
                    ELSE IF om_attempt < max_retries - 1
                    THEN /\ om_pc' = "sleep"
                         /\ UNCHANGED <<om_result, om_attempt>>
                    ELSE /\ om_pc' = "done"
                         /\ om_result' = RetriesExhausted
                         /\ om_attempt' = om_attempt
    /\ UNCHANGED <<om_client, om_calls, coreVars, sizerVars, riskVars,
                   impactVars, metricsVars, solanaVars,
                   pickVars>>

\* asyncio.sleep(retry_delay * (attempt + 1)) is over: the next iteration.
OllamaRetry ==
    /\ om_pc = "sleep"
    /\ om_attempt' = om_attempt + 1
    /\ om_pc' = "request"
    /\ UNCHANGED <<om_client, om_calls, om_requests, om_result, coreVars,
                   sizerVars, riskVars, impactVars, metricsVars, solanaVars,
                   pickVars>>

\* The caller has the result or the exception.
OllamaReturn ==
    /\ om_pc = "done"
    /\ om_pc' = "idle"
    /\ UNCHANGED <<om_client, om_calls, om_attempt, om_requests, om_result,
                   coreVars, sizerVars, riskVars, impactVars, metricsVars,
                   solanaVars,
                   pickVars>>

(***************************************************************************)
(* The venue POST /dex/swap gates and the venue it executes on             *)
(* (src/backend/api/routers/dex.py, src/backend/services/dex/aggregator.py)*)
(***************************************************************************)
NoVenuePick ==
    [called |-> FALSE, pool_answers |-> NoAnswers, quote_answers |-> NoAnswers,
     gated |-> "none", executing |-> "none"]

\* best_pool = pool_info["best_liquidity"]: the venue whose snapshot the
\* checks of the handler read.
GatedVenue(en, pool_answers) ==
    LET pool_info == GetPoolInfo(<<"S", "/", "U">>, en, pool_answers)
    IN  IF pool_info.ok THEN pool_info.best_liquidity.venue ELSE "none"

\* execute_swap(quote) submits through quote["dex"] of the quote
\* get_best_quote returned.
ExecutingVenue(en, quote_answers) ==
    LET best == GetBestQuote(en, quote_answers)
    IN  IF best.ok THEN best.quote.dex ELSE "none"

PickInit == venue_pick = NoVenuePick

\* The two selections of one swap request, for what the venues answer to
\* get_pool_info and to get_best_quote.
SelectVenues ==
    /\ ~venue_pick.called
    /\ venue_pick' =
          [venue_pick EXCEPT
             !.called = TRUE,
             !.gated = GatedVenue(enabled, venue_pick.pool_answers),
             !.executing = ExecutingVenue(enabled, venue_pick.quote_answers)]
    /\ UNCHANGED <<coreVars, sizerVars, riskVars, impactVars, metricsVars,
                   solanaVars, ollamaVars>>

SideInit ==
    /\ MetricsInit /\ SolanaInit /\ OllamaInit /\ PickInit
    /\ om_client = "httpx"

ExtInit == SizerInit /\ RiskInit /\ ImpactInit /\ SideInit

(***************************************************************************)
(* Specifications                                                          *)
(***************************************************************************)
InitSwitcher ==
    /\ SwitcherInit /\ AggInit /\ PoolInit /\ RouterInit /\ ExtInit
    /\ enabled = [d \in Dexes |-> TRUE]
NextSwitcher == Tick \/ RunCheck \/ RunEvaluate
SpecSwitcher == InitSwitcher /\ [][NextSwitcher]_vars

InitAggregator ==
    SwitcherInit /\ AggInit /\ PoolInit /\ RouterInit /\ ExtInit
NextAggregator ==
    \/ GetBestQuoteCall
    \/ QuoteNext
    \/ QuoteAnswer
    \/ GetBestQuoteReturn
    \/ AggExecuteSwap
SpecAggregator == InitAggregator /\ [][NextAggregator]_vars

InitRouter ==
    SwitcherInit /\ AggInit /\ PoolInit /\ RouterInit /\ ExtInit
NextRouter == RouterExecuteSwap \/ RouterRespond
SpecRouter == InitRouter /\ [][NextRouter]_vars

InitFanOut ==
    SwitcherInit /\ AggInit /\ PoolInit /\ RouterInit /\ ExtInit
NextFanOut ==
    \/ CallerGetBestQuote
    \/ QuoteNext
    \/ QuoteAnswer
    \/ GetBestQuoteReturn
    \/ CallerGetPoolInfo
    \/ PoolNext
    \/ PoolAnswer
    \/ GetPoolInfoReturn
    \/ CallerTakesResult
SpecFanOut == InitFanOut /\ [][NextFanOut]_vars

\* The state after construction with every venue enabled.
CoreInit ==
    /\ SwitcherInit /\ AggInit /\ PoolInit /\ RouterInit
    /\ enabled = [d \in Dexes |-> TRUE]

\* calculate_position_size under every position_sizing configuration.
InitSizer ==
    /\ CoreInit /\ RiskInit /\ ImpactInit
    /\ ps_config \in SizingConfigs
    /\ ps_result \in SizingCalls
    /\ SideInit
NextSizer == SizerCalculate
SpecSizer == InitSizer /\ [][NextSizer]_vars

\* validate_trade under every setting of config["risk_limits"].
InitValidate ==
    /\ CoreInit /\ SizerInit /\ ImpactInit
    /\ risk_limits \in LimitSettings
    /\ vt_result \in ValidationCalls
    /\ pr_result = NoPositionRisk
    /\ pf_result = NoPortfolioRisk
    /\ SideInit
NextValidate == RiskValidateTrade
SpecValidate == InitValidate /\ [][NextValidate]_vars

InitPositionRisk ==
    /\ CoreInit /\ SizerInit /\ ImpactInit
    /\ risk_limits = [sym \in TradeSymbols |-> NoLimit]
    /\ vt_result = NoValidation
    /\ pr_result \in PositionRiskCalls
    /\ pf_result = NoPortfolioRisk
    /\ SideInit
NextPositionRisk == RiskAssessPosition
SpecPositionRisk == InitPositionRisk /\ [][NextPositionRisk]_vars

InitPortfolioRisk ==
    /\ CoreInit /\ SizerInit /\ ImpactInit
    /\ risk_limits = [sym \in TradeSymbols |-> NoLimit]
    /\ vt_result = NoValidation
    /\ pr_result = NoPositionRisk
    /\ pf_result \in PortfolioRiskCalls
    /\ SideInit
NextPortfolioRisk == RiskAssessPortfolio
SpecPortfolioRisk == InitPortfolioRisk /\ [][NextPortfolioRisk]_vars

InitImpact ==
    /\ CoreInit /\ SizerInit /\ RiskInit
    /\ pi_result \in ImpactCalls
    /\ SideInit
NextImpact == ImpactCalculate
SpecImpact == InitImpact /\ [][NextImpact]_vars

\* The controller with update_metrics calls between its steps.  run() is
\* started 2 * min_mode_duration after construction, the dwell time over.
InitMetrics ==
    /\ now = 2 * min_mode_duration
    /\ current_mode = DEX_SWAP
    /\ mode_switch_time = 0
    /\ run_pc = "sleep"
    /\ wake_at = 0
    /\ last_eval = NoEval
    /\ last_switch = 0
    /\ AggInit /\ PoolInit /\ RouterInit /\ ExtInit
    /\ enabled = [d \in Dexes |-> TRUE]
NextMetrics == Tick \/ RunCheck \/ RunEvaluate \/ UpdateMetrics
SpecMetrics == InitMetrics /\ [][NextMetrics]_vars

InitSolana == CoreInit /\ ExtInit
NextSolana == SolanaExecuteSwapCall \/ SolanaValidateLiquidity
SpecSolana == InitSolana /\ [][NextSolana]_vars

InitVenues ==
    /\ CoreInit /\ SizerInit /\ RiskInit /\ ImpactInit
    /\ MetricsInit /\ SolanaInit /\ OllamaInit /\ om_client = "httpx"
    /\ venue_pick \in [called : {FALSE}, pool_answers : PoolAnswerMaps,
                       quote_answers : [Dexes -> QuoteAnswers],
                       gated : {"none"}, executing : {"none"}]
NextVenues == SelectVenues
SpecVenues == InitVenues /\ [][NextVenues]_vars

InitOllama ==
    /\ CoreInit /\ SizerInit /\ RiskInit /\ ImpactInit
    /\ MetricsInit /\ SolanaInit /\ OllamaInit /\ PickInit
    /\ om_client \in Clients
NextOllama ==
    OllamaGenerateCall \/ OllamaRequest \/ OllamaRetry \/ OllamaReturn
SpecOllama == InitOllama /\ [][NextOllama]_vars

(***************************************************************************)
(* Properties                                                              *)
(***************************************************************************)
Finished == gq_pc \in {"returned", "failed"}
Quoted(d) == enabled[d] /\ gq_answers[d].kind = "quote"
RECURSIVE PositionFrom(_, _)
PositionFrom(d, i) ==
    IF i > Len(DexOrder) THEN i
    ELSE IF DexOrder[i] = d THEN i ELSE PositionFrom(d, i + 1)
Position(d) == PositionFrom(d, 1)

\* C1: the mode never changes while fewer than min_mode_duration (300)
\* seconds have passed since the previous change of mode, or since
\* construction for the first one, whatever the advisory returns.
DwellBeforeSwitch ==
    [][current_mode' # current_mode => now' - last_switch >= 300]_vars

\* A second switch, made on a confidence of 1.0, back to the initial mode.
WitnessDwellBeforeSwitch ==
    /\ last_eval.switched
    /\ last_eval.conf = 100
    /\ current_mode = DEX_SWAP
    /\ last_switch >= 600

\* C2, as stated: an evaluation that got an advisory switches iff the
\* confidence is above 0.8 and the recommendation differs from the current
\* mode.
SwitchIffConfidentAndDifferent ==
    [][(run_pc = "evaluating" /\ last_eval'.kind = "advised")
         => ((current_mode' # current_mode)
               <=> (last_eval'.conf > 80 /\ last_eval'.rec # current_mode))]_vars

\* C2, amended: an evaluation that got an advisory switches iff the
\* confidence is above 0.8 and the recommendation is one of the trading modes
\* and differs from the current mode; the new mode is the recommended one.
SwitchIffConfidentAndOtherMode ==
    [][(run_pc = "evaluating" /\ last_eval'.kind = "advised")
         => /\ (current_mode' # current_mode)
                 <=> /\ last_eval'.conf > 80
                     /\ last_eval'.rec \in {"dex_swap", "pump_fun"}
                     /\ last_eval'.rec # current_mode
            /\ (current_mode' # current_mode) => current_mode' = last_eval'.rec]_vars

\* An evaluation that switched on a confidence of 0.81.
WitnessSwitchIffConfident ==
    /\ last_eval.kind = "advised"
    /\ last_eval.conf = 81
    /\ last_eval.switched
    /\ current_mode = last_eval.rec
    /\ current_mode # last_eval.mode_before

\* C3: the quote get_best_quote returns is the answer of an enabled venue
\* in this call, and no venue that answered in this call quoted a smaller
\* price impact.
BestQuoteIsMinimum ==
    gq_pc = "returned" =>
        /\ \E d \in Dexes : /\ Quoted(d)
                            /\ gq_result.quote.dex = d
                            /\ gq_result.quote.price_impact = gq_answers[d].pi
        /\ \A d \in Dexes : Quoted(d) =>
               gq_result.quote.price_impact <= gq_answers[d].pi

\* Venue A quotes 1%, venue B quotes 3%, A's quote is returned.
WitnessBestQuoteIsMinimum ==
    /\ gq_pc = "returned"
    /\ Quoted("jupiter") /\ gq_answers["jupiter"].pi = 300
    /\ Quoted("raydium") /\ gq_answers["raydium"].pi = 100
    /\ gq_result.quote.dex = "raydium"

\* C4: when every enabled venue raised or returned nothing, get_best_quote
\* fails with 400 "No valid quotes found" and returns no quote.
AllVenuesFailNoQuote ==
    (Finished /\ \A d \in Dexes : ~Quoted(d)) =>
        /\ gq_pc = "failed"
        /\ gq_result.ok = FALSE
        /\ gq_result.status = 400
        /\ gq_result.detail = "No valid quotes found"
        /\ gq_result.quote = NoQuote

\* All three venues enabled, none answers with a quote.
WitnessAllVenuesFailNoQuote ==
    /\ gq_pc = "failed"
    /\ \A d \in Dexes : enabled[d]
    /\ gq_answers["jupiter"].kind = "raise"
    /\ gq_answers["raydium"].kind = "none"
    /\ gq_answers["orca"].kind = "raise"

\* C5: a venue that raises takes only its own quote away: every enabled
\* venue is asked, the exception does not reach the caller, and the call
\* succeeds whenever an enabled venue answered with a quote.
ProviderFailureIsolated ==
    Finished =>
        /\ \A d \in Dexes : enabled[d] => gq_answers[d] # NotAsked
        /\ gq_result.status # 500
        /\ (\E d \in Dexes : Quoted(d)) => gq_pc = "returned"

\* The first venue raises, a later one quotes, the call returns that quote.
WitnessProviderFailureIsolated ==
    /\ gq_pc = "returned"
    /\ enabled["jupiter"] /\ gq_answers["jupiter"].kind = "raise"
    /\ Quoted("orca")
    /\ gq_result.quote.dex = "orca"

\* C6: among the venues that quoted the minimum price impact, the one that
\* comes first in the order jupiter, raydium, orca is returned.
TieGoesToFirstRegistered ==
    gq_pc = "returned" =>
        \A d \in Dexes :
            (Quoted(d) /\ gq_answers[d].pi = gq_result.quote.price_impact)
                => Position(gq_result.quote.dex) <= Position(d)

\* Raydium and orca tie below jupiter; raydium's quote is returned.
WitnessTieGoesToFirstRegistered ==
    /\ gq_pc = "returned"
    /\ Quoted("jupiter") /\ gq_answers["jupiter"].pi = 300
    /\ Quoted("raydium") /\ gq_answers["raydium"].pi = 200
    /\ Quoted("orca") /\ gq_answers["orca"].pi = 200
    /\ gq_result.quote.dex = "raydium"

RejectionCitesFirstFailing ==
    LET r == router_result
    IN  (router_pc = "done" /\ r.best_pool # NoPool) =>
           IF r.best_pool.liquidity_usd < 100000
              THEN r.status = 400 /\ r.detail = "Insufficient liquidity"
           ELSE IF r.best_pool.volume_24h < 50000
              THEN r.status = 400 /\ r.detail = "Insufficient volume"
           ELSE IF r.best_pool.spread > 100
              THEN r.status = 400 /\ r.detail = "Spread too high"
           ELSE (r.quote # NoQuote /\ r.quote.price_impact > 200)
                   => (r.status = 400 /\ r.detail = "Price impact too high")

\* C9: each check has an inclusive bound: a pool is let through to the
\* quote iff liquidity >= 100,000, volume >= 50,000 and spread <= 1%, and a
\* quote is let through to the swap iff its price impact <= 2%.
GateBoundsInclusive ==
    LET r == router_result
    IN  (router_pc = "done" /\ r.best_pool # NoPool) =>
           /\ (router_req.quote_answers # NoAnswers)
                 <=> /\ r.best_pool.liquidity_usd >= 100000
                     /\ r.best_pool.volume_24h >= 50000
                     /\ r.best_pool.spread <= 100
           /\ (r.quote # NoQuote) =>
                 (r.swap_invoked <=> r.quote.price_impact <= 200)

\* C10: one DEXAggregator.execute_swap submits to the venue at most once,
\* and a submission that failed ends the attempt as failed.
SubmitAtMostOnce ==
    /\ swap_result.exec_calls <= 1
    /\ (swap_result.quote.dex = "jupiter"
          /\ ~(swap_result.quote.swap_fields /\ swap_result.venue_ok))
         => (swap_result.status = "failed" /\ swap_result.exec_calls = 1)

\* A well-formed Jupiter quote whose submission the venue refused.
WitnessSubmitAtMostOnce ==
    /\ swap_result.status = "failed"
    /\ swap_result.quote.dex = "jupiter"
    /\ swap_result.quote.swap_fields
    /\ ~swap_result.venue_ok
    /\ swap_result.exec_calls = 1

\* C11: execute_swap on the quote get_best_quote returned submits once to
\* the venue that produced it, whichever enabled venue that is, and when the
\* venue accepts the submission the result is "completed" with dex_used
\* equal to that venue.
SwapThroughWinningVenue ==
    (/\ gq_pc = "returned"
     /\ swap_result.status # "none"
     /\ swap_result.quote = gq_result.quote) =>
        /\ swap_result.exec_calls = 1
        /\ swap_result.venue_ok =>
              /\ swap_result.status = "completed"
              /\ swap_result.dex_used = gq_result.quote.dex

PoolFinished == gp_pc \in {"returned", "failed"}
\* The venue d delivered a pool snapshot in this call (for Jupiter: a price
\* that is not zero).
PoolDelivered(d) ==
    /\ enabled[d]
    /\ \/ gp_answers[d].kind = "pool"
       \/ gp_answers[d].kind = "price" /\ gp_answers[d].price > 0
PoolVenues(dex_data) == {dex_data[i].venue : i \in 1..Len(dex_data)}
QuoteVenues(qs) == {qs[i].dex : i \in 1..Len(qs)}

\* C12: get_best_quote, and get_pool_info once its argument passed the
\* format test, end only when the call to every enabled venue has completed
\* or failed, and every venue that delivered, however late in the call, is
\* part of the selection: its quote is among those the minimum is taken
\* over, its snapshot is in dex_data and competes for best_liquidity.
ReturnAfterEveryVenue ==
    /\ Finished =>
          /\ \A d \in Dexes : enabled[d] => gq_answers[d] # NotAsked
          /\ \A d \in Dexes : Quoted(d) =>
                /\ d \in QuoteVenues(quotes)
                /\ gq_result.ok
                /\ gq_result.quote.price_impact <= gq_answers[d].pi
    /\ (PoolFinished /\ gp_result.status # 400) =>
          /\ \A d \in Dexes : enabled[d] => gp_answers[d] # NotAsked
          /\ \A d \in Dexes : PoolDelivered(d) =>
                /\ gp_result.ok
                /\ d \in PoolVenues(gp_result.dex_data)
                /\ \E i \in 1..Len(gp_result.dex_data) :
                      /\ gp_result.dex_data[i].venue = d
                      /\ gp_result.best_liquidity.liquidity_usd
                            >= gp_result.dex_data[i].liquidity_usd

\* The first venue had delivered a quote already; the last one, awaited
\* after the two others, delivered a better one and was selected.
WitnessReturnAfterEveryVenue ==
    /\ gq_pc = "returned"
    /\ gq_answers["jupiter"].kind = "quote"
    /\ gq_answers["raydium"].kind = "raise"
    /\ gq_answers["orca"].kind = "quote"
    /\ gq_answers["orca"].pi < gq_answers["jupiter"].pi
    /\ gq_result.quote.dex = "orca"

\* C13: within one get_best_quote or get_pool_info call the queries are
\* dispatched concurrently: by the time the call to any venue has been
\* awaited to completion, the call to every enabled venue has been started.
ConcurrentDispatch ==
    /\ (\E d \in Dexes : gq_answers[d] # NotAsked) =>
          \A e \in Dexes : enabled[e] => e \in gq_started
    /\ (\E d \in Dexes : gp_answers[d] # NotAsked) =>
          \A e \in Dexes : enabled[e] => e \in gp_started

\* A step that ends an evaluation of the controller.
EvaluationEnds == run_pc = "evaluating" /\ run_pc' = "sleep"

\* C14: an evaluation in which the market scan or the advisory raised, or
\* whose advisory carries no recommendation, a recommendation that is not a
\* trading mode, or a confidence that is not a number, leaves the current
\* mode and the last-switch time as they were.
NoSwitchOnFailedAdvisory ==
    [][(/\ EvaluationEnds
        /\ \/ last_eval'.kind \in {"market_error", "advisory_error",
                                   "advised_malformed"}
           \/ last_eval'.rec \notin {"dex_swap", "pump_fun"})
         => UNCHANGED <<current_mode, mode_switch_time>>]_vars

\* In pump_fun mode, an advisory of confidence 1.0 recommending "hold".
WitnessNoSwitchOnFailedAdvisory ==
    /\ run_pc = "sleep"
    /\ last_eval.kind = "advised"
    /\ last_eval.rec = "hold"
    /\ last_eval.conf = 100
    /\ last_eval.mode_before = PUMP_FUN
    /\ current_mode = PUMP_FUN
    /\ mode_switch_time < now

\* The iteration that ev describes ended in the except clause of run().
IterationRaised(ev) ==
    \/ ev.kind \in {"market_error", "advisory_error", "advised_malformed"}
    \/ /\ ev.kind = "advised"
       /\ ev.conf > 80
       /\ ev.rec # ev.mode_before
       /\ ev.rec \notin {"dex_swap", "pump_fun"}

\* C15: the loop has no terminal state: it is always asleep or evaluating,
\* an evaluation can always end, a sleep that is over can always be followed
\* by the next iteration, and an iteration that raised is followed by a
\* sleep of 5 seconds, any other one by a sleep of 60 seconds.
LoopSurvivesErrors ==
    /\ [](run_pc \in {"sleep", "evaluating"})
    /\ [](run_pc = "evaluating" => ENABLED RunEvaluate)
    /\ []((run_pc = "sleep" /\ now >= wake_at) => ENABLED RunCheck)
    /\ [][EvaluationEnds =>
            wake_at' = now' + (IF IterationRaised(last_eval') THEN 5 ELSE 60)]_vars

\* After a market scan that raised, 5 seconds later, the next iteration has
\* begun its evaluation.
WitnessLoopSurvivesErrors ==
    /\ last_eval.kind = "market_error"
    /\ run_pc = "evaluating"
    /\ now = wake_at
    /\ now >= 305

\* C16: an iteration that starts while fewer than 300 seconds have passed
\* since the last switch ends at once: no recommendation, no call to the
\* opportunity scanners or the advisory model, no change of the mode state.
DwellIsNoOp ==
    [][(run_pc = "sleep" /\ now' = now /\ now - mode_switch_time < 300)
         => /\ run_pc' = "sleep"
            /\ last_eval'.kind = "dwell"
            /\ ~last_eval'.queried
            /\ ~last_eval'.switched
            /\ UNCHANGED <<current_mode, mode_switch_time, last_switch>>]_vars

\* An iteration blocked by the dwell time 240 seconds or more after a switch.
WitnessDwellIsNoOp ==
    /\ last_eval.kind = "dwell"
    /\ current_mode = PUMP_FUN
    /\ now - mode_switch_time >= 240
    /\ now - mode_switch_time < 300
    /\ wake_at = now + 60

\* C17: a step that changes the current mode makes it the recommended mode
\* and sets the last-switch time to the time of that step; a step that does
\* not change the current mode does not change the last-switch time.
SwitchWritesModeAndTime ==
    [][/\ current_mode' # current_mode =>
             /\ EvaluationEnds
             /\ current_mode' = last_eval'.rec
             /\ mode_switch_time' = now'
       /\ current_mode' = current_mode =>
             mode_switch_time' = mode_switch_time]_vars

\* A switch made more than 300 seconds after construction.
WitnessSwitchWritesModeAndTime ==
    /\ last_eval.switched
    /\ current_mode = PUMP_FUN
    /\ mode_switch_time = now
    /\ mode_switch_time > 300
    /\ run_pc = "sleep"

\* C18: the confidence the 0.8 test is made on lies within [0, 1]: a value
\* outside that range has been clamped or the advisory rejected before.
ConfidenceWithinRange ==
    last_eval.compared_made =>
        (last_eval.compared >= 0 /\ last_eval.compared <= 100)

\* The string splits on "/" into exactly two segments, neither of them
\* empty.
WellFormedPair(str) ==
    /\ Len(str) >= 3
    /\ Cardinality({i \in 1..Len(str) : str[i] = "/"}) = 1
    /\ str[1] # "/"
    /\ str[Len(str)] # "/"

\* C19: a get_pool_info call whose argument does not split on "/" into
\* exactly two non-empty segments fails with 400 "Invalid token pair format"
\* and no venue is queried in it.
MalformedPairRejected ==
    (gp_pc # "idle" /\ ~WellFormedPair(gp_pair)) =>
        /\ gp_pc = "failed"
        /\ gp_result.status = 400
        /\ gp_result.detail = "Invalid token pair format"
        /\ gp_started = {}

\* C20: a get_pool_info call whose argument passed the format test fails
\* with 404 "No pool information found" iff no enabled venue delivered a
\* snapshot; otherwise it succeeds, and dex_data holds exactly the venues
\* that delivered: a venue that raised or returned nothing is left out and
\* does not fail the call.
NoPoolInfoIffNoSnapshot ==
    (PoolFinished /\ gp_result.status # 400) =>
        /\ (\A d \in Dexes : ~PoolDelivered(d)) <=>
              /\ gp_pc = "failed"
              /\ gp_result.status = 404
              /\ gp_result.detail = "No pool information found"
        /\ (\E d \in Dexes : PoolDelivered(d)) <=>
              /\ gp_pc = "returned"
              /\ gp_result.status = 200
        /\ PoolVenues(gp_result.dex_data) = {d \in Dexes : PoolDelivered(d)}

\* One venue raised, one returned nothing, the third delivered: the call
\* succeeds with the third venue alone in dex_data.
WitnessNoPoolInfoIffNoSnapshot ==
    /\ gp_pc = "returned"
    /\ gp_answers["jupiter"].kind = "raise"
    /\ gp_answers["raydium"].kind = "none"
    /\ gp_answers["orca"].kind = "pool"
    /\ PoolVenues(gp_result.dex_data) = {"orca"}

\* C21: best_liquidity is one of the snapshots of dex_data, none of them has
\* a greater liquidity_usd, and every venue of equal liquidity_usd comes
\* later than it in the registration order.
BestLiquidityIsFirstMaximum ==
    gp_pc = "returned" =>
        LET best == gp_result.best_liquidity
            data == gp_result.dex_data
        IN  /\ \E i \in 1..Len(data) : data[i] = best
            /\ \A i \in 1..Len(data) :
                  /\ data[i].liquidity_usd <= best.liquidity_usd
                  /\ data[i].liquidity_usd = best.liquidity_usd
                        => Position(best.venue) <= Position(data[i].venue)

\* The second and the third venue report the same liquidity, greater than
\* the first venue's: the second venue's snapshot is returned.
WitnessBestLiquidityIsFirstMaximum ==
    /\ gp_pc = "returned"
    /\ Len(gp_result.dex_data) = 3
    /\ gp_result.dex_data[1].liquidity_usd < gp_result.dex_data[2].liquidity_usd
    /\ gp_result.dex_data[2].liquidity_usd = gp_result.dex_data[3].liquidity_usd
    /\ gp_result.best_liquidity.venue = "raydium"

\* C22: a request whose best pool fails the liquidity, volume or spread
\* threshold is answered with a 400 whose body carries, as fields of their
\* own, the name of the threshold, its limit and the observed value.
RejectionIsStructured ==
    LET r == router_result
    IN  (/\ router_pc = "done"
         /\ r.best_pool # NoPool
         /\ \/ r.best_pool.liquidity_usd < 100000
            \/ r.best_pool.volume_24h < 50000
            \/ r.best_pool.spread > 100) =>
           /\ r.status = 400
           /\ {"threshold", "limit", "observed"} \subseteq DOMAIN r.body


\* C23: calculate_position_size raises a validation error, with no size
\* computed, exactly when the symbol is empty, or price <= 0, or risk_factor
\* is <= 0 or > 1, or leverage is < 1 or > max_leverage; for every other
\* input it raises nothing and computes a size.
SizingRaisesExactlyOnInvalidInput ==
    ps_result.called =>
        LET invalid ==
                \/ ps_result.symbol = ""
                \/ ~RatLt(R(0), ps_result.price)
                \/ ~RatLt(R(0), ps_result.risk_factor)
                \/ RatLt(R(1), ps_result.risk_factor)
                \/ RatLt(ps_result.leverage, R(1))
                \/ RatLt(max_leverage, ps_result.leverage)
        IN  /\ ps_result.raised <=> invalid
            /\ ps_result.raised => ~ps_result.computed /\ ps_result.error # "none"
            /\ ~ps_result.raised => ps_result.computed

\* A call that is rejected for its risk factor of 0 alone.
WitnessSizingRaisesExactlyOnInvalidInput ==
    /\ ps_result.called /\ ps_result.raised
    /\ ps_result.symbol = "BTC" /\ ps_result.price = R(100)
    /\ ps_result.risk_factor = R(0) /\ ps_result.leverage = R(1)

\* C24: for valid inputs total_size is min(base_size * size_multiplier,
\* max_position_size * max_position_percent), times risk_factor under
\* risk-based sizing, divided by leverage, times 0.8 under volatility
\* adjustment; and total_size is at most the max_size reported.
TotalSizeFollowsFormula ==
    ps_result.computed =>
        LET base == RatMul(ps_config.base_size, ps_config.size_multiplier)
            maxAllowed == RatMul(max_position_size,
                                 ps_config.max_position_percent)
            capped == IF RatLt(maxAllowed, base) THEN maxAllowed ELSE base
            risked == IF ps_config.risk_based_sizing
                         THEN RatMul(capped, ps_result.risk_factor) ELSE capped
            levered == RatDiv(risked, ps_result.leverage)
            adjusted == IF ps_config.volatility_adjustment
                           THEN RatMul(levered, Rat(4, 5)) ELSE levered
        IN  /\ ps_result.total_size = adjusted
            /\ ps_result.max_size = maxAllowed
            /\ RatLeq(ps_result.total_size, ps_result.max_size)

\* A size computed from the cap (base_size above it), with every adjustment
\* applied: 20000 * 1/2 / (5/2) * 0.8 = 3200.
WitnessTotalSizeFollowsFormula ==
    /\ ps_result.computed
    /\ ps_config.base_size = R(30000)
    /\ ps_config.risk_based_sizing /\ ps_config.volatility_adjustment
    /\ ps_result.risk_factor = Rat(1, 2) /\ ps_result.leverage = Rat(5, 2)
    /\ ps_result.total_size = R(3200)

\* C25: with staged entry enabled there are as many stages as the shortest
\* of entry_stages, profit_targets and size_per_stage has elements, stage i
\* has size total_size * entry_stages[i] and target price
\* price * profit_targets[i]; with staged entry disabled no stages are
\* returned.
StagesFollowShortestList ==
    ps_result.computed =>
        IF ps_config.staged_entry
           THEN /\ ~ps_result.stages_none
                /\ \E n \in {Len(ps_config.entry_stages),
                             Len(ps_config.profit_targets),
                             Len(ps_config.size_per_stage)} :
                      /\ n <= Len(ps_config.entry_stages)
                      /\ n <= Len(ps_config.profit_targets)
                      /\ n <= Len(ps_config.size_per_stage)
                      /\ Len(ps_result.stages) = n
                /\ \A i \in 1..Len(ps_result.stages) :
                      /\ ps_result.stages[i].size =
                            RatMul(ps_result.total_size,
                                   ps_config.entry_stages[i])
                      /\ ps_result.stages[i].target_price =
                            RatMul(ps_result.price,
                                   ps_config.profit_targets[i])
           ELSE ps_result.stages_none /\ ps_result.stages = <<>>

\* Two stages built from a two-element entry_stages beside two lists of three.
WitnessStagesFollowShortestList ==
    /\ ps_result.computed /\ ps_config.staged_entry
    /\ Len(ps_config.entry_stages) = 2 /\ Len(ps_config.profit_targets) = 3
    /\ Len(ps_result.stages) = 2
    /\ ps_result.stages[2].size # ps_result.stages[2].size_percentage


\* Notional value and required margin of the trade that was validated.
TradeNotional == RatMul(vt_result.size, vt_result.price)
TradeMargin == RatDiv(TradeNotional, max_leverage)

\* C26 (as stated): validate_trade rejects a trade if and only if its
\* notional exceeds the per-symbol limit, or its notional exceeds the global
\* max position size, or its required margin exceeds the free collateral.
RejectsIffNotionalOverLimits ==
    vt_result.called =>
        (~vt_result.is_valid <=>
            \/ /\ risk_limits[vt_result.symbol].present
               /\ RatLt(risk_limits[vt_result.symbol].max_size, TradeNotional)
            \/ RatLt(max_position_size, TradeNotional)
            \/ RatLt(vt_result.free_collateral, TradeMargin))

\* C26 (amended): validate_trade rejects a trade if and only if its size
\* exceeds the max_size configured for its symbol, or its notional exceeds
\* the global max position size, or its notional divided by max_leverage
\* exceeds the free collateral; every other trade is approved.
RejectsIffSizeOrNotionalOverLimits ==
    vt_result.called =>
        /\ ~vt_result.is_valid <=>
              \/ /\ risk_limits[vt_result.symbol].present
                 /\ RatLt(risk_limits[vt_result.symbol].max_size,
                          vt_result.size)
              \/ RatLt(max_position_size, TradeNotional)
              \/ RatLt(vt_result.free_collateral, TradeMargin)
        /\ vt_result.is_valid <=>
              vt_result.reason = "Trade meets risk management criteria"

\* A trade of size 20 at price 0.1 under a per-symbol max_size of 10 is
\* rejected for its size although its notional, 2, is below the limit.
WitnessRejectsIffSizeOrNotionalOverLimits ==
    /\ vt_result.called /\ ~vt_result.is_valid
    /\ risk_limits[vt_result.symbol].present
    /\ vt_result.size = R(20) /\ vt_result.price = Rat(1, 10)
    /\ vt_result.free_collateral = R(40000)
    /\ vt_result.reason = "Size exceeds limit"


\* C27: assess_portfolio_risk on a portfolio without positions raises
\* nothing and returns the neutral result, whatever total_value and
\* free_collateral are: total risk score 0, diversification score 0, no
\* margin warning, no concentration warning, an empty list of recommended
\* actions.
EmptyPortfolioIsNeutral ==
    pf_result.called /\ pf_result.positions = <<>> =>
        /\ ~pf_result.raised
        /\ pf_result.total_risk_score = R(0)
        /\ pf_result.diversification_score = R(0)
        /\ ~pf_result.margin_warning
        /\ ~pf_result.concentration_warning
        /\ ~pf_result.actions_none
        /\ pf_result.recommended_actions = <<>>
        /\ pf_result.position_risks = <<>>

\* The assessment of an empty portfolio whose total value and free
\* collateral are both 0.
WitnessEmptyPortfolioIsNeutral ==
    /\ pf_result.called /\ pf_result.positions = <<>>
    /\ pf_result.total_value = R(0) /\ pf_result.free_collateral = R(0)
    /\ ~pf_result.margin_warning

\* C28: every result assess_position_risk returns has a risk_score from 0
\* to 1, for long and short sizes, every leverage and every price move.
RiskScoreWithinUnitInterval ==
    pr_result.called /\ ~pr_result.raised =>
        /\ RatLeq(R(0), pr_result.risk_score)
        /\ RatLeq(pr_result.risk_score, R(1))

\* A short position at twice max_leverage whose price doubled: the weighted
\* sum, 1.8992, is cut to 1.
WitnessRiskScoreWithinUnitInterval ==
    /\ pr_result.called /\ ~pr_result.raised
    /\ pr_result.position.size = R(-2)
    /\ pr_result.position.leverage = R(10)
    /\ pr_result.position.entry_price = R(100)
    /\ pr_result.position.current_price = R(200)
    /\ pr_result.risk_score = R(1)


\* The three entries of the liquidity data that was passed.
ImpactFields ==
    {pi_result.data.price, pi_result.data.base_liquidity,
     pi_result.data.quote_liquidity}

\* C29: calculate_price_impact raises nothing and returns the infinite
\* sentinel whenever a required field is missing, is not a number, or is
\* not positive.
BadLiquidityDataGivesInfinity ==
    pi_result.called
    /\ (\E f \in ImpactFields : f.kind # "num" \/ RatLeq(f.v, R(0))) =>
        ~pi_result.raised /\ pi_result.infinite

\* A call with price 0 and both reserves positive, answered by the sentinel.
WitnessBadLiquidityDataGivesInfinity ==
    /\ pi_result.called /\ pi_result.infinite
    /\ pi_result.data.price = Num(R(0))
    /\ pi_result.data.base_liquidity = Num(R(1000))
    /\ pi_result.data.quote_liquidity = Num(R(100000))

\* C30: for a pool with positive price and positive reserves the impact
\* computed is a finite, non-negative number.
PositivePoolHasFiniteImpact ==
    pi_result.called
    /\ (\A f \in ImpactFields : f.kind = "num" /\ RatLt(R(0), f.v)) =>
        /\ ~pi_result.raised
        /\ ~pi_result.infinite
        /\ RatLeq(R(0), pi_result.value)

\* C40: for every non-empty portfolio the total_risk_score of
\* assess_portfolio_risk lies within [0, 1], between the smallest and the
\* largest risk score of its positions, short positions and portfolios whose
\* notionals sum to zero or less included.
TotalRiskIsAverageOfPositionRisks ==
    (pf_result.called /\ ~pf_result.raised /\ pf_result.positions # <<>>) =>
        LET total == pf_result.total_risk_score
            risks == pf_result.position_risks
        IN  /\ RatLeq(R(0), total) /\ RatLeq(total, R(1))
            /\ \E i \in DOMAIN risks : RatLeq(risks[i].risk_score, total)
            /\ \E i \in DOMAIN risks : RatLeq(total, risks[i].risk_score)

(***************************************************************************)
(* update_metrics                                                          *)
(***************************************************************************)
\* The pnl the step attributes to a mode.
AttributedPnl(m) == RatSub(pnl_sum'[m], pnl_sum[m])

\* C31: an update_metrics call for a mode adds the trade's pnl to that
\* mode's total_pnl, sets win_rate to (9 * old + 1) / 10 when pnl > 0 and to
\* 9 * old / 10 otherwise, and avg_return to (9 * old + pnl) / 10; after any
\* sequence of calls a mode's total_pnl is the sum of the pnls attributed
\* to it.
MetricsFollowUpdateRule ==
    [][/\ updates' # updates =>
            \E m \in TradingMode :
               LET old == mode_metrics[m]
                   new == mode_metrics'[m]
                   pnl == AttributedPnl(m)
               IN  /\ \A o \in TradingMode \ {m} : pnl_sum'[o] = pnl_sum[o]
                   /\ new.total_pnl = RatAdd(old.total_pnl, pnl)
                   /\ new.win_rate =
                         IF RatLt(R(0), pnl)
                            THEN RatDiv(RatAdd(RatMul(R(9), old.win_rate), R(1)),
                                        R(10))
                            ELSE RatDiv(RatMul(R(9), old.win_rate), R(10))
                   /\ new.avg_return =
                         RatDiv(RatAdd(RatMul(R(9), old.avg_return), pnl), R(10))
       /\ \A m \in TradingMode : mode_metrics'[m].total_pnl = pnl_sum'[m]
      ]_vars

\* Three calls for one mode, a win, a loss and a win: total_pnl is 3.
WitnessMetricsFollowUpdateRule ==
    /\ updates = 3
    /\ mode_metrics[PUMP_FUN].total_pnl = R(3)
    /\ mode_metrics[PUMP_FUN].win_rate = RatDiv(R(181), R(1000))
    /\ mode_metrics[DEX_SWAP] = StrategyMetrics

\* C37: update_metrics changes only the StrategyMetrics of the mode it is
\* given: the other mode's metrics, the current mode and the time of the
\* last switch stay as they are, so the controller loop is the only writer
\* of the mode state however the calls interleave with its iterations.
UpdateTouchesOneModeOnly ==
    [][/\ updates' # updates =>
            /\ \E m \in TradingMode :
                  \A o \in TradingMode \ {m} : mode_metrics'[o] = mode_metrics[o]
            /\ current_mode' = current_mode
            /\ mode_switch_time' = mode_switch_time
            /\ last_switch' = last_switch
       /\ (current_mode' # current_mode \/ mode_switch_time' # mode_switch_time)
            => (run_pc = "evaluating" /\ run_pc' = "sleep" /\ updates' = updates)
      ]_vars

\* The controller has switched to pump_fun and two trades of dex_swap were
\* recorded, the second after the switch.
WitnessUpdateTouchesOneModeOnly ==
    /\ updates = 2
    /\ current_mode = PUMP_FUN
    /\ mode_switch_time = last_switch
    /\ last_switch > 0
    /\ mode_metrics[DEX_SWAP].total_pnl = R(4)
    /\ mode_metrics[PUMP_FUN] = StrategyMetrics

\* C38: after any sequence of update_metrics calls, starting from the
\* initial metrics, the win_rate of each mode lies within [0, 1].
WinRateWithinUnitInterval ==
    \A m \in TradingMode :
       /\ RatLeq(R(0), mode_metrics[m].win_rate)
       /\ RatLeq(mode_metrics[m].win_rate, R(1))

\* Three winning trades of dex_swap: win_rate 0.1, 0.19, 0.271.
WitnessWinRateWithinUnitInterval ==
    /\ updates = 3
    /\ mode_metrics[DEX_SWAP].win_rate = RatDiv(R(271), R(1000))
    /\ mode_metrics[DEX_SWAP].total_pnl = R(6)

\* C36: the current mode is always one of dex_swap and pump_fun; an advisory
\* that recommends a value outside the enumeration, or no mode at all,
\* never changes the current mode, whatever its confidence.
ModeStaysInEnumeration ==
    /\ current_mode \in TradingMode
    /\ (last_eval.kind \in {"advised", "advised_malformed"}
         /\ last_eval.rec \notin TradingMode) =>
           /\ ~last_eval.switched
           /\ current_mode = last_eval.mode_before

\* In pump_fun, after the dwell time, the advisory recommends "hold" with
\* confidence 1.0 and the mode stays pump_fun.
WitnessModeStaysInEnumeration ==
    /\ last_eval.kind = "advised"
    /\ last_eval.rec = "hold"
    /\ last_eval.conf = 100
    /\ last_eval.mode_before = PUMP_FUN
    /\ current_mode = PUMP_FUN

(***************************************************************************)
(* SolanaDEXManager.execute_swap                                           *)
(***************************************************************************)
\* C32: execute_swap on an order that lacks token_in, token_out or
\* amount_in fails with status 400 and a detail naming "Invalid order
\* parameters", without fetching pool data, submitting a swap or touching
\* the swap metrics.
InvalidOrderFailsWith400 ==
    (sdm_result.called /\ ~ValidateOrder(sdm_result.order)) =>
        /\ sdm_result.status = "failed"
        /\ sdm_result.code = 400
        /\ sdm_result.detail \in
              {"Invalid order parameters",
               "Swap execution failed: Invalid order parameters"}
        /\ ~sdm_result.pool_fetched
        /\ ~sdm_result.submitted
        /\ ~sdm_result.volume_added
        /\ ~sdm_result.counted

GatesAgreeOnEverySnapshot ==
    vl_result.called =>
        (vl_result.accepted <=> vl_result.router_gate = "ok")

(***************************************************************************)
(* OllamaModel.generate                                                    *)
(***************************************************************************)
RECURSIVE LeadingTimeouts(_)
\* How many requests of the call timed out before the first that did not.
LeadingTimeouts(requests) ==
    IF requests = <<>> \/ Head(requests) # "read_timeout" THEN 0
    ELSE 1 + LeadingTimeouts(Tail(requests))

GenerateEnded == om_pc = "done"

\* C33: generate retries only after a read timeout and makes at most
\* max_retries requests: after k < max_retries consecutive timeouts followed
\* by a successful response it returns that response having made exactly
\* k + 1 requests; an error other than a timeout ends the call at once with
\* ModelError; max_retries consecutive timeouts end it with ModelError.
GenerateRetriesOnlyOnTimeout ==
    LET k == LeadingTimeouts(om_requests)
        n == Len(om_requests)
    IN  /\ n <= max_retries
        /\ om_pc = "sleep" => (n >= 1 /\ om_requests[n] = "read_timeout")
        /\ GenerateEnded =>
              /\ n = IF k = max_retries THEN max_retries ELSE k + 1
              /\ (k < max_retries /\ om_requests[n] = "ok") =>
                    om_result = [kind |-> "returned", detail |-> "response"]
              /\ (k < max_retries /\ om_requests[n] # "ok") =>
                    om_result.kind = "ModelError"
              /\ k = max_retries => om_result.kind = "ModelError"

====
